---------------------------- MODULE Spec2Model ----------------------------
(***************************************************************************)
(* Model of the Altea class-booking bot: the browser client                *)
(* (src/src/client.py), the two booking entry points (src/main.py,         *)
(* src/book_from_config.py), the e-mail notifier (src/src/notifications.py)*)
(* and the calendar webhook (src/src/calendar.py).                         *)
(*                                                                         *)
(* Python strings are modelled as sequences of one-character strings, so   *)
(* that strip(), upper(), lower() and the substring operator `in` are      *)
(* computed and not assumed.  The browser driver is an opaque environment: *)
(* every driver call may raise, and what a call returns is drawn from a    *)
(* small set.                                                              *)
(***************************************************************************)
EXTENDS Integers, Sequences, FiniteSets, TLC

VARIABLES
    prog,            \* which entry point runs: "main" (main.py) or "config" (book_from_config.py)
    query,           \* the class asked for: [name, time]
    calendar_url,    \* user_creds has a calendar_webhook_url
    pc,              \* position of the run
    notifier,        \* "unset", or whether EmailNotifier() was constructed
    playwright,      \* AlteaClient.playwright: "none" | "open" | "closed"
    browser,         \* AlteaClient.browser:    "none" | "open" | "closed"
    page,            \* AlteaClient.page:       "none" | "open" | "closed"
    exitStatus,      \* "running", or the exit status of the process (0 or 1)
    crashCause,      \* "none", or what raised the exception that ended the run
    calls,           \* the client/notifier operations the run has called, in order
    loginOut,        \* "none", or the outcome of login(): [ret, trace]
    scroll_attempt,  \* get_schedule: loop counter
    seen_urls,       \* get_schedule: set of hrefs already seen
    classes,         \* get_schedule: accumulated list of class_info
    rendered,        \* history: hrefs of the links iterated in the snapshots read
    linkIdx,         \* get_schedule: links of the current snapshot already iterated
    at_bottom,       \* get_schedule: at-bottom value of the metrics read this iteration
    extractRaised,   \* history: hrefs of the links whose extraction raised
    gsRaised,        \* history: "none", or the step of get_schedule that raised into its handler
    gsShot,          \* history: the handler's diagnostic screenshot was captured
    gsRet,           \* what get_schedule returned: [st |-> "none" | "ok" | "raised", val]
    metrics,         \* get_schedule: scroll_height, scroll_top, client_height read this iteration
    snapshots,       \* history: snapshots (metrics and links) read
    scrolls,         \* history: scrollBy calls that returned
    attempts,        \* history: per href, how each extraction of its fields ended
    reRendered,      \* history: hrefs skipped as seen, extractable, after their extraction raised
    pageScrolls,     \* environment: the page is at its bottom after this many scrolls
    matches,         \* result of find_class in the run
    mi,              \* number of matches already processed by the for loop
    outcomes,        \* per processed match: what book_class, the calendar and the notifier did
    lastBook,        \* "none", or the outcome of the last book_class(): [ret, trace]
    fin,             \* input of a pure function under check ("none" in a run)
    fout,            \* its output ("none" before it is applied)
    crontab,         \* the trigger store: the text of the user's crontab
    config,          \* classes.yaml as scheduler.py loads it: [kind, classes]
    clock,           \* the scheduler runs so far (the time of "Generated on")
    lastRun,         \* what the last run of scheduler.py did
    args             \* the flags of the command line: [dry_run, install, remove]

runVars == <<prog, query, calendar_url, pc, notifier, playwright, browser, page,
             exitStatus, crashCause, calls, loginOut, matches, mi, outcomes, lastBook>>
scrapeVars == <<scroll_attempt, seen_urls, classes, rendered, linkIdx, at_bottom,
                extractRaised, gsRaised, gsShot, gsRet, metrics, snapshots, scrolls,
                attempts, reRendered, pageScrolls>>
schedVars == <<crontab, config, clock, lastRun, args>>
fnVars == <<fin, fout, schedVars>>
vars == <<runVars, scrapeVars, fnVars>>

---------------------------------------------------------------------------
(* Python str operations on sequences of characters.                       *)

LowerLetters == <<"a","b","c","d","e","f","g","h","i","j","k","l","m",
                  "n","o","p","q","r","s","t","u","v","w","x","y","z">>
UpperLetters == <<"A","B","C","D","E","F","G","H","I","J","K","L","M",
                  "N","O","P","Q","R","S","T","U","V","W","X","Y","Z">>

\* str.upper() on one character
UpperChar(c) ==
    IF \E i \in 1..Len(LowerLetters) : LowerLetters[i] = c
    THEN UpperLetters[CHOOSE i \in 1..Len(LowerLetters) : LowerLetters[i] = c]
    ELSE c

\* str.lower() on one character
LowerChar(c) ==
    IF \E i \in 1..Len(UpperLetters) : UpperLetters[i] = c
    THEN LowerLetters[CHOOSE i \in 1..Len(UpperLetters) : UpperLetters[i] = c]
    ELSE c

Upper(s) == [i \in 1..Len(s) |-> UpperChar(s[i])]
Lower(s) == [i \in 1..Len(s) |-> LowerChar(s[i])]

IsSpace(c) == c \in {" ", "\t", "\n"}

RECURSIVE LStrip(_)
LStrip(s) == IF s # <<>> /\ IsSpace(Head(s)) THEN LStrip(Tail(s)) ELSE s

RECURSIVE RStrip(_)
RStrip(s) ==
    IF s # <<>> /\ IsSpace(s[Len(s)]) THEN RStrip(SubSeq(s, 1, Len(s) - 1)) ELSE s

\* str.strip()
Strip(s) == RStrip(LStrip(s))

\* Python `sub in s` on strings
Contains(sub, s) ==
    \E i \in 0..(Len(s) - Len(sub)) : SubSeq(s, i + 1, i + Len(sub)) = sub

---------------------------------------------------------------------------
(* AlteaClient.find_class (src/src/client.py:228-257).                     *)

\* the time test of lines 246-255: True when the event is appended
TimeMatches_NoElif(event_time, search_time) ==
    /\ event_time # <<>>
    /\ Upper(Strip(event_time)) = search_time

TimeMatches(event_time, search_time) ==
    /\ event_time # <<>>                                     \* if event_time:
    /\ LET normalized_event_time == Upper(Strip(event_time))
       IN  IF normalized_event_time = search_time
           THEN TRUE
           ELSE \/ Contains(search_time, normalized_event_time)
                \/ Contains(normalized_event_time, search_time)

RECURSIVE FindClassLoop(_, _, _, _)
FindClassLoop(schedule, class_name_partial, search_time, acc) ==
    IF schedule = <<>> THEN acc
    ELSE LET event == Head(schedule)
             hit == /\ Contains(Lower(class_name_partial), Lower(event.title))
                    /\ TimeMatches(event.time, search_time)
         IN  FindClassLoop(Tail(schedule), class_name_partial, search_time,
                           IF hit THEN Append(acc, event) ELSE acc)

find_class(schedule, class_name_partial, time_str) ==
    FindClassLoop(schedule, class_name_partial, Upper(Strip(time_str)), <<>>)

---------------------------------------------------------------------------
(* Exceptions.  A method body is the sequence of the driver calls on its   *)
(* path; failAt is the index of the call that raises (0: none does).  The  *)
(* calls before it have run, the ones after it never run.                  *)

Raises(path, failAt) == failAt \in 1..Len(path)

Ran(path, failAt) ==
    IF Raises(path, failAt) THEN SubSeq(path, 1, failAt - 1) ELSE path

---------------------------------------------------------------------------
(* AlteaClient.login (src/src/client.py:29-113).                           *)

MaxLoginSteps == 9

\* what the page does during one login() call
LoginEnvs ==
    [failAt : 0..MaxLoginSteps,        \* which call of the outer try raises
     reveal : {"invisible", "visible", "raises"},  \* the "log in" control (lines 49-58)
     must_login : BOOLEAN,             \* "You must be logged in" in page.content()
     form_visible : BOOLEAN,           \* input[type='email'] count() > 0
     handlerShotOk : BOOLEAN]          \* the screenshot of the except clause succeeds

\* lines 49-58: the inner try swallows every exception of the reveal step
RevealSteps(env) == IF env.reveal = "visible" THEN <<"click_login">> ELSE <<>>

\* the driver calls of the outer try that can raise out of it, in order
\* (a read is named by what it finds: "form_present" is count() > 0 at line 99)
LoginPath(env) ==
    <<"goto", "wait_load", "fill_email", "fill_password", "click_submit", "wait_load">>
    \o (IF env.must_login THEN <<"content_must_login", "screenshot">>
        ELSE <<"content_ok">>
             \o (IF env.form_visible THEN <<"form_present", "screenshot">>
                 ELSE <<"form_absent">>))

\* the value returned when nothing raises (lines 93-106)
LoginNormalRet(env) ==
    IF env.must_login THEN "False"
    ELSE IF env.form_visible THEN "False"
    ELSE "True"

\* login(): [ret |-> "True" | "False" | "raised", trace |-> the calls that returned]
login(env) ==
    LET path == LoginPath(env)
        ran  == Ran(path, env.failAt)
        \* the reveal step runs once goto and wait_load have returned
        done == IF Len(ran) >= 2
                THEN SubSeq(ran, 1, 2) \o RevealSteps(env) \o SubSeq(ran, 3, Len(ran))
                ELSE ran
    IN  IF ~Raises(path, env.failAt)
        THEN [ret |-> LoginNormalRet(env), trace |-> done]
        ELSE IF env.handlerShotOk                            \* lines 108-113
             THEN [ret |-> "False", trace |-> Append(done, "screenshot")]
             ELSE [ret |-> "raised", trace |-> done]

---------------------------------------------------------------------------
(* AlteaClient.book_class (src/src/client.py:259-383).                     *)

MaxBookSteps == 12

BookEnvs ==
    [failAt : 0..MaxBookSteps,   \* which driver call of the try bodies raises
     xpath : BOOLEAN,            \* the XPath book button count() > 0
     text : BOOLEAN,             \* the "Book Now"/"Book" text button count() > 0
     confirm : BOOLEAN,          \* the confirm button count() > 0
     innerShotOk : BOOLEAN,      \* screenshot of the inner except clause succeeds
     outerShotOk : BOOLEAN]      \* screenshot of the outer except clause succeeds

\* lines 275-284: the calls of the outer try before the inner try
BookNavSteps == <<"goto", "wait_load", "wait_timeout">>

\* lines 297-325 and 336-364: after the book button was clicked
ConfirmSteps(env) ==
    <<"wait_timeout", "screenshot">>
    \o (IF env.confirm
        THEN <<"confirm_found", "click_confirm", "wait_timeout", "screenshot">>
        ELSE <<"confirm_absent", "screenshot">>)

\* lines 288-369: the calls of the inner try; a count() call is named by what
\* it finds ("xpath_found": the XPath book button count() > 0)
BookInnerSteps(env) ==
    IF env.xpath
    THEN <<"xpath_found", "click_book">> \o ConfirmSteps(env)
    ELSE IF env.text
         THEN <<"xpath_absent", "text_found", "click_book">> \o ConfirmSteps(env)
         ELSE <<"xpath_absent", "text_absent", "screenshot">>

\* the value returned when nothing raises (lines 320, 325, 359, 364, 369)
BookNormalRet(env) ==
    IF env.xpath
    THEN (IF env.confirm THEN "True" ELSE "False")
    ELSE IF env.text
         THEN (IF env.confirm THEN "True" ELSE "False")
         ELSE "False"

\* book_class(): [ret |-> "True" | "False" | "raised", trace |-> the calls that returned]
book_class(env) ==
    LET path == BookNavSteps \o BookInnerSteps(env)
        ran  == Ran(path, env.failAt)
    IN  IF ~Raises(path, env.failAt)
        THEN [ret |-> BookNormalRet(env), trace |-> ran]
        ELSE IF env.failAt > Len(BookNavSteps) /\ env.innerShotOk   \* lines 371-375
             THEN [ret |-> "False", trace |-> Append(ran, "screenshot")]
             ELSE IF env.outerShotOk                                \* lines 377-383
                  THEN [ret |-> "False", trace |-> Append(ran, "screenshot")]
                  ELSE [ret |-> "raised", trace |-> ran]

\* the clicks of a trace, in order
Clicks(trace) == SelectSeq(trace, LAMBDA s : s \in {"click_book", "click_confirm"})

\* a trace without its navigation and wait calls
Notable(trace) ==
    SelectSeq(trace, LAMBDA s : s \notin {"goto", "wait_load", "wait_timeout"})

---------------------------------------------------------------------------
(* AlteaClient.get_schedule (src/src/client.py:115-226).                   *)

ScrollLimit == 100     \* while scroll_attempt < 100
Tolerance == 10        \* scroll_top + client_height >= scroll_height - 10
MaxSnap == 2           \* links iterated in one snapshot, at most
MaxRunScrolls == 1     \* in a whole run, the page is at its bottom after this many scrolls

URLS == {"/booking/evt_1", "/booking/evt_2", "/booking/evt_3"}

\* what the page renders in the card of each link
Card(url) ==
    CASE url = "/booking/evt_1" ->
           [name |-> <<"L","F","3"," ","S","t","r","o","n","g">>,
            time |-> <<" ","8",":","3","0"," ","A","M">>,
            spots_left |-> "3", markers |-> {}]
      [] url = "/booking/evt_2" ->
           [name |-> <<"L","F","3"," ","C","o","r","e">>,
            time |-> <<"8",":","3","0"," ","A","M"," ">>,
            spots_left |-> "None", markers |-> {"Join Waitlist"}]
      [] OTHER ->
           [name |-> <<"L","F","3"," ","S","t","r","o","n","g">>,
            time |-> <<"8",":","3","0"," ","P","M">>,
            spots_left |-> "None", markers |-> {}]

\* lines 162-190: the class_info dict built from a card
class_info(url) ==
    LET card == Card(url)
        is_full == card.markers \cap {"Full", "Join Waitlist"} # {}
    IN  [title |-> Strip(card.name), time |-> Strip(card.time),
         spots_left |-> card.spots_left, is_full |-> is_full,
         can_book |-> ~is_full, url |-> url]

\* the scroll metrics a page may report
ScrollTops == {0, 589, 590}
ClientHeights == {400}
ScrollHeights == {1000}

AtBottom_NoTolerance(scroll_top, client_height, scroll_height) ==
    scroll_top + client_height >= scroll_height

\* line 202
AtBottom(scroll_top, client_height, scroll_height) ==
    scroll_top + client_height >= scroll_height - Tolerance

\* how the extraction of one link ends: it returns, get_attribute raises
\* (line 154), or reading the name/time/card text raises (lines 164-173)
LinkOutcomes == {"ok", "raise_href", "raise_fields"}

ProcessLink_NoDedup(href, outcome, seen, acc) ==
    IF outcome = "raise_href" THEN [seen |-> seen, classes |-> acc]
    ELSE IF outcome = "raise_fields" THEN [seen |-> seen \cup {href}, classes |-> acc]
    ELSE [seen |-> seen \cup {href}, classes |-> Append(acc, class_info(href))]

ProcessLink_SeenAfterExtraction(href, outcome, seen, acc) ==
    IF outcome = "raise_href" THEN [seen |-> seen, classes |-> acc]
    ELSE IF href \in seen THEN [seen |-> seen, classes |-> acc]
    ELSE IF outcome = "raise_fields" THEN [seen |-> seen, classes |-> acc]
    ELSE [seen |-> seen \cup {href}, classes |-> Append(acc, class_info(href))]

ProcessLink_ErrorDiscards(href, outcome, seen, acc) ==
    IF outcome = "raise_href" THEN [seen |-> seen, classes |-> <<>>]
    ELSE IF href \in seen THEN [seen |-> seen, classes |-> acc]
    ELSE IF outcome = "raise_fields" THEN [seen |-> seen \cup {href}, classes |-> <<>>]
    ELSE [seen |-> seen \cup {href}, classes |-> Append(acc, class_info(href))]

\* lines 151-199: the body of the for loop for one link
ProcessLink(href, outcome, seen, acc) ==
    IF outcome = "raise_href" THEN [seen |-> seen, classes |-> acc]
    ELSE IF href \in seen THEN [seen |-> seen, classes |-> acc]         \* continue
    ELSE IF outcome = "raise_fields" THEN [seen |-> seen \cup {href}, classes |-> acc]
    ELSE [seen |-> seen \cup {href}, classes |-> Append(acc, class_info(href))]

\* whether the extraction of this link raised (into the except of line 197)
LinkRaised(href, outcome, seen) ==
    \/ outcome = "raise_href"
    \/ outcome = "raise_fields" /\ href \notin seen

\* whether the fields of this link are extracted (line 164 is reached)
Extracted(href, outcome, seen) == outcome # "raise_href" /\ href \notin seen

\* the metrics before the first iteration
NoMetrics == [scroll_height |-> 0, scroll_top |-> 0, client_height |-> 0]

LoopContinues_Inclusive(n) == n <= ScrollLimit

\* line 142: the test of the while loop
LoopContinues(n) == n < ScrollLimit

\* lines 220-226: the except clause; its screenshot may raise in turn
GSHandler(step, shotOk) ==
    /\ gsRaised' = step
    /\ gsShot' = shotOk
    /\ gsRet' = IF shotOk THEN [st |-> "ok", val |-> <<>>]
                          ELSE [st |-> "raised", val |-> <<>>]
    /\ pc' = "gs_done"

\* lines 123-140: navigation and the waits before the loop
GS_Navigate ==
    /\ pc = "gs_nav"
    /\ calls' = Append(calls, [op |-> "get_schedule", arg |-> ""])
    /\ \/ /\ pc' = "gs_loop"
          /\ classes' = <<>>
          /\ seen_urls' = {}
          /\ scroll_attempt' = 0
          /\ UNCHANGED <<gsRaised, gsShot, gsRet>>
       \/ /\ \E shotOk \in BOOLEAN : GSHandler("navigate", shotOk)
          /\ UNCHANGED <<classes, seen_urls, scroll_attempt>>
    /\ UNCHANGED <<rendered, linkIdx, at_bottom, extractRaised, pageScrolls>>
    /\ UNCHANGED <<metrics, snapshots, scrolls, attempts, reRendered>>
    /\ UNCHANGED <<prog, query, calendar_url, notifier, playwright, browser, page,
                   exitStatus, crashCause, loginOut, matches, mi, outcomes, lastBook>>
    /\ UNCHANGED fnVars

\* lines 142-149: the while test, the three metrics and the links of the snapshot;
\* lines 214-218 when the loop ends by its limit
GS_Begin ==
    /\ pc = "gs_loop"
    /\ IF LoopContinues(scroll_attempt)
       THEN \/ /\ \E st \in ScrollTops, ch \in ClientHeights, sh \in ScrollHeights :
                     /\ scroll_attempt >= pageScrolls => st + ch >= sh - Tolerance
                     /\ metrics' = [scroll_height |-> sh, scroll_top |-> st,
                                    client_height |-> ch]
                     /\ at_bottom' = AtBottom(st, ch, sh)
               /\ snapshots' = snapshots + 1
               /\ linkIdx' = 0
               /\ pc' = "gs_links"
               /\ UNCHANGED <<gsRaised, gsShot, gsRet>>
            \/ /\ \E shotOk \in BOOLEAN : GSHandler("metrics", shotOk)
               /\ UNCHANGED <<at_bottom, linkIdx, metrics, snapshots>>
       ELSE /\ gsRet' = [st |-> "ok", val |-> classes]
            /\ pc' = "gs_done"
            /\ UNCHANGED <<at_bottom, linkIdx, gsRaised, gsShot, metrics, snapshots>>
    /\ UNCHANGED <<scroll_attempt, seen_urls, classes, rendered, extractRaised, pageScrolls>>
    /\ UNCHANGED <<scrolls, attempts, reRendered>>
    /\ UNCHANGED <<prog, query, calendar_url, notifier, playwright, browser, page,
                   exitStatus, crashCause, calls, loginOut, matches, mi, outcomes, lastBook>>
    /\ UNCHANGED fnVars

\* lines 151-199: the next link of the snapshot
GS_Link ==
    /\ pc = "gs_links"
    /\ linkIdx < MaxSnap
    /\ \E href \in URLS, outcome \in LinkOutcomes :
          LET r == ProcessLink(href, outcome, seen_urls, classes)
          IN  /\ seen_urls' = r.seen
              /\ classes' = r.classes
              /\ rendered' = rendered \cup {href}
              /\ extractRaised' = IF LinkRaised(href, outcome, seen_urls)
                                  THEN extractRaised \cup {href} ELSE extractRaised
              /\ attempts' = IF Extracted(href, outcome, seen_urls)
                             THEN [attempts EXCEPT ![href] =
                                      Append(@, IF outcome = "ok" THEN "ok" ELSE "raised")]
                             ELSE attempts
              /\ reRendered' = IF /\ href \in seen_urls
                                  /\ outcome = "ok"
                                  /\ attempts[href] = <<"raised">>
                               THEN reRendered \cup {href} ELSE reRendered
    /\ linkIdx' = linkIdx + 1
    /\ UNCHANGED <<scroll_attempt, at_bottom, gsRaised, gsShot, gsRet, pageScrolls>>
    /\ UNCHANGED <<metrics, snapshots, scrolls>>
    /\ UNCHANGED <<prog, query, calendar_url, pc, notifier, playwright, browser, page,
                   exitStatus, crashCause, calls, loginOut, matches, mi, outcomes, lastBook>>
    /\ UNCHANGED fnVars

\* lines 201-212 (and 214-218 after the break): the at-bottom test and the scroll
GS_EndIteration ==
    /\ pc = "gs_links"
    /\ IF at_bottom
       THEN /\ gsRet' = [st |-> "ok", val |-> classes]
            /\ pc' = "gs_done"
            /\ UNCHANGED <<scroll_attempt, scrolls, gsRaised, gsShot>>
       ELSE \/ /\ scroll_attempt' = scroll_attempt + 1
               /\ scrolls' = scrolls + 1
               /\ pc' = "gs_loop"
               /\ UNCHANGED <<gsRaised, gsShot, gsRet>>
            \* scrollBy raises (line 209), or the wait after it does (line 210)
            \/ /\ \E shotOk \in BOOLEAN : GSHandler("scroll", shotOk)
               /\ \E scrolled \in BOOLEAN :
                     scrolls' = IF scrolled THEN scrolls + 1 ELSE scrolls
               /\ UNCHANGED scroll_attempt
    /\ UNCHANGED <<seen_urls, classes, rendered, linkIdx, at_bottom, extractRaised, pageScrolls>>
    /\ UNCHANGED <<metrics, snapshots, attempts, reRendered>>
    /\ UNCHANGED <<prog, query, calendar_url, notifier, playwright, browser, page,
                   exitStatus, crashCause, calls, loginOut, matches, mi, outcomes, lastBook>>
    /\ UNCHANGED fnVars

---------------------------------------------------------------------------
(* EmailNotifier (src/src/notifications.py) and add_to_calendar            *)
(* (src/src/calendar.py).                                                  *)

\* the keyword parameters the two methods declare (lines 386 and 412)
SuccessParams == {"class_info", "for_wife"}
FailureParams == {"class_info", "error_message", "for_wife"}

\* the keyword arguments the two entry points pass (main.py:208-212,
\* book_from_config.py:273-277 and the send_booking_failure calls)
CallKwargs == {"user_name", "user_email"}

\* EmailNotifier.send_email (lines 29-59) behind either method: the recipients are
\* [self.to_email]; a status other than 200 raises, and the method re-raises
SendVia(params, kwargs, mail200) ==
    IF ~(kwargs \subseteq params)
    THEN [result |-> "raised", error |-> "TypeError", to |-> "nobody"]
    ELSE IF mail200
         THEN [result |-> "sent", error |-> "none", to |-> "TO_EMAIL"]
         ELSE [result |-> "raised", error |-> "Exception", to |-> "nobody"]

\* lines 386-410
send_booking_success(kwargs, mail200) == SendVia(SuccessParams, kwargs, mail200)

\* lines 412-437
send_booking_failure(kwargs, mail200) == SendVia(FailureParams, kwargs, mail200)

\* what the webhook call of add_to_calendar may do
CalendarEnvs == {"ok", "http_error", "api_error", "timeout", "request_exception",
                 "parse_error"}

add_to_calendar_NoCatch(cenv) ==
    IF cenv = "ok" THEN "True"
    ELSE IF cenv \in {"http_error", "api_error"} THEN "False"
    ELSE "raised"

\* calendar.py:40-114 with a webhook url: "True", "False"; every exception is caught
add_to_calendar(cenv) ==
    IF cenv = "ok" THEN "True"                                \* lines 94-98
    ELSE IF cenv \in {"http_error", "api_error"} THEN "False"  \* lines 99-104
    ELSE "False"                                              \* lines 106-114

---------------------------------------------------------------------------
(* The run: main() of src/main.py (lines 124-269) and of                   *)
(* src/book_from_config.py (lines 154-322), from the with statement on.    *)

Progs == {"main", "config"}

\* main.py requires AM or PM in the time (lines 118-120); the control file does not
Queries(p) ==
    IF p = "main"
    THEN {[name |-> <<"l","f","3">>, time |-> <<"8",":","3","0"," ","A","M">>]}
    ELSE {[name |-> <<"l","f","3">>, time |-> <<"8",":","3","0"," ","A","M">>],
          [name |-> <<"L","F","3">>, time |-> <<"8",":","3","0">>]}

\* the error_message of the three failure notifications, as <<text, argument>>
ReasonBookFailed(p) ==
    IF p = "main"
    THEN <<"Failed to complete booking process. The booking button may not have been found or clicked.", "">>
    ELSE <<"Failed to complete booking process.", "">>

ReasonNotBookable(spots_left) ==
    <<"Class is full or not bookable. Spots left: ", spots_left>>

ReasonNoMatch(p) ==
    IF p = "main"
    THEN <<"Could not find the specified class in the schedule. It may not be available on this date.", "">>
    ELSE <<"Could not find the specified class in the schedule.", "">>

NoMail ==
    [kind |-> "none", reason |-> <<"", "">>, result |-> "none", error |-> "none",
     to |-> "nobody"]

\* a notifier call inside its try/except Exception; nothing is sent without a notifier
Notify(kind, reason, mail200) ==
    IF ~notifier THEN NoMail
    ELSE LET r == IF kind = "success"
                  THEN send_booking_success(CallKwargs, mail200)
                  ELSE send_booking_failure(CallKwargs, mail200)
         IN  [kind |-> kind, reason |-> reason, result |-> r.result, error |-> r.error,
              to |-> r.to]

\* the method's locals before it is called
scrapeIdle ==
    /\ scroll_attempt = 0
    /\ seen_urls = {}
    /\ classes = <<>>
    /\ rendered = {}
    /\ linkIdx = 0
    /\ at_bottom = FALSE
    /\ extractRaised = {}
    /\ gsRaised = "none"
    /\ gsShot = FALSE
    /\ gsRet = [st |-> "none", val |-> <<>>]
    /\ metrics = NoMetrics
    /\ snapshots = 0
    /\ scrolls = 0
    /\ attempts = [u \in URLS |-> <<>>]
    /\ reRendered = {}

\* no scheduler run: scheduler.py is a program of its own
NoRun ==
    [mode |-> "none", status |-> "none", report |-> "", read |-> "none",
     installOk |-> FALSE, wrote |-> FALSE, before |-> <<>>,
     gen |-> [err |-> "none", none |-> FALSE, triggers |-> <<>>]]

\* a command line without flags
NoArgs == [dry_run |-> FALSE, install |-> FALSE, remove |-> FALSE]

schedIdle ==
    /\ crontab = <<>>
    /\ config = [kind |-> "missing", classes |-> <<>>]
    /\ clock = 0
    /\ lastRun = NoRun
    /\ args = NoArgs

fnIdle ==
    /\ fin = [fn |-> "none"]
    /\ fout = [st |-> "none", val |-> <<>>]
    /\ schedIdle

\* the state when the with statement is reached
Init ==
    /\ prog \in Progs
    /\ query \in Queries(prog)
    /\ calendar_url \in BOOLEAN
    /\ notifier \in BOOLEAN          \* EmailNotifier() raised ValueError or not
    /\ pc = "enter"
    /\ playwright = "none"
    /\ browser = "none"
    /\ page = "none"
    /\ exitStatus = "running"
    /\ crashCause = "none"
    /\ calls = <<>>
    /\ loginOut = [ret |-> "none", trace |-> <<>>]
    /\ matches = <<>>
    /\ mi = 0
    /\ outcomes = <<>>
    /\ lastBook = [ret |-> "none", trace |-> <<>>]
    /\ scrapeIdle
    /\ pageScrolls = MaxRunScrolls
    /\ fnIdle

\* AlteaClient.__enter__ (client.py:13-18): when it raises, __exit__ is not called
Enter ==
    /\ pc = "enter"
    /\ \E failed \in {"none", "start", "launch", "new_page"} :
          /\ playwright' = IF failed = "start" THEN "none" ELSE "open"
          /\ browser' = IF failed \in {"start", "launch"} THEN "none" ELSE "open"
          /\ page' = IF failed = "none" THEN "open" ELSE "none"
          /\ IF failed = "none"
             THEN pc' = "login" /\ UNCHANGED <<exitStatus, crashCause>>
             ELSE pc' = "done" /\ exitStatus' = "1" /\ crashCause' = "enter"
    /\ UNCHANGED <<prog, query, calendar_url, notifier, calls, loginOut, matches, mi,
                   outcomes, lastBook>>
    /\ UNCHANGED scrapeVars
    /\ UNCHANGED fnVars

AfterLogin_NoExit(ret) ==
    IF ret = "raised" THEN [pc |-> "exit", cause |-> "login"]
    ELSE [pc |-> "gs_nav", cause |-> "none"]

\* main.py:153-155, book_from_config.py:226-228
AfterLogin(ret) ==
    IF ret = "raised" THEN [pc |-> "exit", cause |-> "login"]
    ELSE IF ret = "False" THEN [pc |-> "exit", cause |-> "sys_exit"]
    ELSE [pc |-> "gs_nav", cause |-> "none"]

\* Step 1: client.login() and the test of its result
Login ==
    /\ pc = "login"
    /\ \E env \in LoginEnvs :
          LET out == login(env)
              nxt == AfterLogin(out.ret)
          IN  /\ loginOut' = out
              /\ pc' = nxt.pc
              /\ crashCause' = nxt.cause
    /\ calls' = Append(calls, [op |-> "login", arg |-> ""])
    /\ UNCHANGED <<prog, query, calendar_url, notifier, playwright, browser, page,
                   exitStatus, matches, mi, outcomes, lastBook>>
    /\ UNCHANGED scrapeVars
    /\ UNCHANGED fnVars

\* Step 3: client.find_class over the schedule get_schedule returned
FindClass ==
    /\ pc = "gs_done"
    /\ IF gsRet.st = "raised"
       THEN /\ pc' = "exit"
            /\ crashCause' = "get_schedule"
            /\ UNCHANGED <<calls, matches>>
       ELSE /\ matches' = find_class(gsRet.val, query.name, query.time)
            /\ calls' = Append(calls, [op |-> "find_class", arg |-> ""])
            /\ pc' = "matches"
            /\ UNCHANGED crashCause
    \* the locals of get_schedule are gone; its result is the caller's `schedule`
    /\ scroll_attempt' = 0
    /\ seen_urls' = {}
    /\ classes' = <<>>
    /\ rendered' = {}
    /\ linkIdx' = 0
    /\ at_bottom' = FALSE
    /\ extractRaised' = {}
    /\ metrics' = NoMetrics
    /\ snapshots' = 0
    /\ scrolls' = 0
    /\ attempts' = [u \in URLS |-> <<>>]
    /\ reRendered' = {}
    /\ UNCHANGED <<gsRaised, gsShot, gsRet, pageScrolls>>
    /\ UNCHANGED <<prog, query, calendar_url, notifier, playwright, browser, page,
                   exitStatus, loginOut, mi, outcomes, lastBook>>
    /\ UNCHANGED fnVars

\* the record kept of one iteration of `for match in matches`
Outcome(url, booked, calendar, mail) ==
    [url |-> url, booked |-> booked, calendar |-> calendar, mail |-> mail]

\* the calls one iteration makes after book_class, in order
CallsOf(calendar, mail) ==
    (IF calendar = "none" THEN <<>> ELSE <<[op |-> "add_to_calendar", arg |-> calendar]>>)
    \o (IF mail.kind = "none" THEN <<>> ELSE <<[op |-> "notify", arg |-> mail.kind]>>)

\* the iteration ends: the next match, or the end of the with block
Continue ==
    /\ mi' = mi + 1
    /\ pc' = IF mi + 1 = Len(matches) THEN "exit" ELSE "matches"
    /\ UNCHANGED crashCause

\* an exception leaves the with block
Crash(cause) ==
    /\ pc' = "exit"
    /\ crashCause' = cause
    /\ UNCHANGED mi

\* main.py:190-214, book_from_config.py:256-279: book_class returned True
Booked(url, out) ==
    \E cenv \in CalendarEnvs, mail200 \in BOOLEAN :
       LET cal == IF calendar_url THEN add_to_calendar(cenv) ELSE "none"
           mail == IF cal = "raised" THEN NoMail
                   ELSE Notify("success", <<"", "">>, mail200)
       IN  /\ outcomes' = Append(outcomes, Outcome(url, "True", cal, mail))
           /\ calls' = Append(calls, [op |-> "book_class", arg |-> url]) \o CallsOf(cal, mail)
           /\ IF cal = "raised" THEN Crash("calendar") ELSE Continue

\* main.py:215-228, book_from_config.py:280-291: book_class returned False
BookFailed(url, out) ==
    \E mail200 \in BOOLEAN :
       LET mail == Notify("failure", ReasonBookFailed(prog), mail200)
       IN  /\ outcomes' = Append(outcomes, Outcome(url, "False", "none", mail))
           /\ calls' = Append(calls, [op |-> "book_class", arg |-> url]) \o CallsOf("none", mail)
           /\ Continue

\* main.py:229-248, book_from_config.py:292-303: the match cannot be booked;
\* main.py then opens the class page outside any try (lines 245-247)
NotBookable(match) ==
    \E mail200 \in BOOLEAN, navOk \in BOOLEAN :
       LET mail == Notify("failure", ReasonNotBookable(match.spots_left), mail200)
       IN  /\ outcomes' = Append(outcomes, Outcome(match.url, "skipped", "none", mail))
           /\ calls' = calls \o CallsOf("none", mail)
           /\ IF prog = "main" /\ ~navOk THEN Crash("debug_nav") ELSE Continue

\* Step 4: one iteration of `for match in matches`
ProcessMatch ==
    /\ pc = "matches"
    /\ mi < Len(matches)
    /\ LET match == matches[mi + 1]
       IN  IF match.can_book
           THEN \E env \in BookEnvs :
                   LET out == book_class(env)
                   IN  /\ lastBook' = [ret |-> out.ret, trace |-> Notable(out.trace)]
                       /\ CASE out.ret = "True" -> Booked(match.url, out)
                            [] out.ret = "False" -> BookFailed(match.url, out)
                            [] OTHER ->
                                 /\ outcomes' = Append(outcomes,
                                                   Outcome(match.url, "raised", "none", NoMail))
                                 /\ calls' = Append(calls, [op |-> "book_class", arg |-> match.url])
                                 /\ Crash("book_class")
           ELSE /\ NotBookable(match)
                /\ UNCHANGED lastBook
    /\ UNCHANGED <<prog, query, calendar_url, notifier, playwright, browser, page,
                   exitStatus, loginOut, matches>>
    /\ UNCHANGED scrapeVars
    /\ UNCHANGED fnVars

\* main.py:249-269, book_from_config.py:304-322: find_class returned nothing
NoMatch ==
    /\ pc = "matches"
    /\ matches = <<>>
    /\ \E mail200 \in BOOLEAN :
          LET mail == Notify("failure", ReasonNoMatch(prog), mail200)
          IN  /\ outcomes' = Append(outcomes, Outcome("", "no_match", "none", mail))
              /\ calls' = calls \o CallsOf("none", mail)
    /\ pc' = "exit"
    /\ UNCHANGED <<prog, query, calendar_url, notifier, playwright, browser, page,
                   exitStatus, crashCause, loginOut, matches, mi, lastBook>>
    /\ UNCHANGED scrapeVars
    /\ UNCHANGED fnVars

\* which close calls of __exit__ have returned when `failed` is the one that raises
\* AlteaClient.__exit__ (client.py:20-27): page, browser, playwright in this order
Closed(failed) ==
    [page |-> failed \notin {"page"},
     browser |-> failed \notin {"page", "browser"},
     playwright |-> failed \notin {"page", "browser", "playwright"}]

\* the with block is left (normally, by sys.exit(1) or by an exception): __exit__
\* runs, then the process ends; an uncaught exception ends it with status 1
Exit ==
    /\ pc = "exit"
    /\ \E failed \in {"none", "page", "browser", "playwright"} :
          LET c == Closed(failed)
          IN  /\ page' = IF c.page THEN "closed" ELSE page
              /\ browser' = IF c.browser THEN "closed" ELSE browser
              /\ playwright' = IF c.playwright THEN "closed" ELSE playwright
              \* the first exception of the run is the one kept as its cause
              /\ crashCause' = IF failed = "none" \/ crashCause # "none" THEN crashCause
                               ELSE "close"
              /\ exitStatus' = IF failed = "none" /\ crashCause = "none" THEN "0" ELSE "1"
    /\ pc' = "done"
    /\ UNCHANGED <<prog, query, calendar_url, notifier, calls, loginOut, matches, mi,
                   outcomes, lastBook>>
    /\ UNCHANGED scrapeVars
    /\ UNCHANGED fnVars

Next ==
    \/ Enter
    \/ Login
    \/ GS_Navigate
    \/ GS_Begin
    \/ GS_Link
    \/ GS_EndIteration
    \/ FindClass
    \/ ProcessMatch
    \/ NoMatch
    \/ Exit

Spec == Init /\ [][Next]_vars

---------------------------------------------------------------------------
(* get_schedule on its own: one call on a logged-in client, with a page    *)
(* that may stay away from its bottom for as long as the loop runs.        *)

InitScrape ==
    /\ prog = "config"
    /\ query = [name |-> <<"l","f","3">>, time |-> <<"8",":","3","0"," ","A","M">>]
    /\ calendar_url = FALSE
    /\ notifier = FALSE
    /\ pc = "gs_nav"
    /\ playwright = "open"
    /\ browser = "open"
    /\ page = "open"
    /\ exitStatus = "running"
    /\ crashCause = "none"
    /\ calls = <<[op |-> "login", arg |-> ""]>>
    /\ loginOut = [ret |-> "True", trace |-> <<>>]
    /\ matches = <<>>
    /\ mi = 0
    /\ outcomes = <<>>
    /\ lastBook = [ret |-> "none", trace |-> <<>>]
    /\ scrapeIdle
    /\ pageScrolls = ScrollLimit
    /\ fnIdle

NextScrape ==
    \/ GS_Navigate
    \/ GS_Begin
    \/ GS_Link
    \/ GS_EndIteration

SpecScrape == InitScrape /\ [][NextScrape]_vars

\* the same call when every driver call it makes returns or raises in the end:
\* a step of get_schedule that can be taken is taken
SpecScrapeLive == InitScrape /\ [][NextScrape]_vars /\ WF_vars(NextScrape)

---------------------------------------------------------------------------
(* find_class on its own, over bounded schedules and queries.              *)

MaxSched == 2          \* entries of a schedule, at most

T830   == <<"8",":","3","0">>
T830AM == <<"8",":","3","0"," ","A","M">>
T830PM == <<"8",":","3","0"," ","P","M">>

MatchTitles == {<<"L","F","3"," ","S","t","r","o","n","g">>, <<"Y","o","g","a">>}
MatchTimes == {T830AM, T830PM, T830, <<>>, <<" ">>}
MatchNames == {<<"L","F","3">>, <<"s","t","r","o","n","g">>}
MatchQueryTimes == {T830, T830AM, <<" ","8",":","3","0"," ","a","m"," ">>}

MatchEntries ==
    {[title |-> t, time |-> tm, spots_left |-> "None", is_full |-> FALSE,
      can_book |-> TRUE, url |-> "/booking/evt_1"] : t \in MatchTitles, tm \in MatchTimes}

MatchSchedules == UNION {[1..n -> MatchEntries] : n \in 0..MaxSched}

runIdle ==
    /\ prog = "config"
    /\ query = [name |-> <<>>, time |-> <<>>]
    /\ calendar_url = FALSE
    /\ notifier = FALSE
    /\ pc = "idle"
    /\ playwright = "none"
    /\ browser = "none"
    /\ page = "none"
    /\ exitStatus = "running"
    /\ crashCause = "none"
    /\ calls = <<>>
    /\ loginOut = [ret |-> "none", trace |-> <<>>]
    /\ matches = <<>>
    /\ mi = 0
    /\ outcomes = <<>>
    /\ lastBook = [ret |-> "none", trace |-> <<>>]
    /\ scrapeIdle
    /\ pageScrolls = 0

InitMatch ==
    /\ runIdle
    /\ \E sch \in MatchSchedules, n \in MatchNames, t \in MatchQueryTimes :
          fin = [fn |-> "find_class", schedule |-> sch, name |-> n, time |-> t]
    /\ fout = [st |-> "none", val |-> <<>>]
    /\ schedIdle

ApplyFindClass ==
    /\ fin.fn = "find_class"
    /\ fout.st = "none"
    /\ fout' = [st |-> "done", val |-> find_class(fin.schedule, fin.name, fin.time)]
    /\ UNCHANGED fin
    /\ UNCHANGED schedVars
    /\ UNCHANGED runVars
    /\ UNCHANGED scrapeVars

NextMatch == ApplyFindClass

SpecMatch == InitMatch /\ [][NextMatch]_vars

---------------------------------------------------------------------------
(* The trigger times of src/scheduler.py: parse_time (lines 32-48),        *)
(* calculate_booking_time (51-73), day_to_cron_day (76-87),                *)
(* calculate_cron_day (90-103) and generate_cron_entry (106-153).          *)
(* A function that can raise returns a record whose err field names the    *)
(* exception ("none": it returned).                                        *)

DigitChars == <<"0","1","2","3","4","5","6","7","8","9">>

IsDigit(c) == \E i \in 1..Len(DigitChars) : DigitChars[i] = c

DigitVal(c) == (CHOOSE i \in 1..Len(DigitChars) : DigitChars[i] = c) - 1

RECURSIVE DigitsVal(_, _)
DigitsVal(s, acc) ==
    IF s = <<>> THEN acc ELSE DigitsVal(Tail(s), acc * 10 + DigitVal(Head(s)))

\* int(s) on a string: surrounding whitespace is ignored, one sign is allowed,
\* then decimal digits only
PyInt(s) ==
    LET t == Strip(s)
        signed == t # <<>> /\ Head(t) \in {"-", "+"}
        digits == IF signed THEN Tail(t) ELSE t
    IN  IF digits = <<>> \/ \E i \in 1..Len(digits) : ~IsDigit(digits[i])
        THEN [err |-> "ValueError", val |-> 0]
        ELSE [err |-> "none",
              val |-> IF signed /\ Head(t) = "-" THEN 0 - DigitsVal(digits, 0)
                      ELSE DigitsVal(digits, 0)]

\* s.replace(old, ''), old not empty
RECURSIVE RemoveAll(_, _)
RemoveAll(s, old) ==
    IF Len(s) < Len(old) THEN s
    ELSE IF SubSeq(s, 1, Len(old)) = old
         THEN RemoveAll(SubSeq(s, Len(old) + 1, Len(s)), old)
         ELSE <<Head(s)>> \o RemoveAll(Tail(s), old)

\* s.split(sep) for a one-character separator: the pieces between the
\* separators, one more piece than there are separators
Split(s, sep) ==
    LET at == {i \in 1..Len(s) : s[i] = sep}
        nth(j) == IF j = 0 THEN 0
                  ELSE IF j > Cardinality(at) THEN Len(s) + 1
                  ELSE CHOOSE i \in at : Cardinality({k \in at : k < i}) = j - 1
    IN  [j \in 1..(Cardinality(at) + 1) |-> SubSeq(s, nth(j - 1) + 1, nth(j) - 1)]

AM == <<"A", "M">>
PM == <<"P", "M">>

TimeError == [err |-> "ValueError", hour |-> 0, minute |-> 0]

parse_time_No12AM(time_str) ==
    LET ts == Upper(Strip(time_str))
        parts == Split(Strip(RemoveAll(RemoveAll(ts, AM), PM)), ":")
    IN  IF ~(Contains(AM, ts) \/ Contains(PM, ts)) THEN TimeError
        ELSE IF Len(parts) # 2 THEN TimeError
        ELSE LET h == PyInt(parts[1])
                 m == PyInt(parts[2])
             IN  IF h.err # "none" \/ m.err # "none" THEN TimeError
                 ELSE [err |-> "none",
                       hour |-> IF Contains(PM, ts) /\ h.val # 12 THEN h.val + 12
                                ELSE h.val,
                       minute |-> m.val]

\* scheduler.py:32-48
parse_time(time_str) ==
    LET ts == Upper(Strip(time_str))                                     \* line 34
        time_part == Strip(RemoveAll(RemoveAll(ts, AM), PM))             \* line 38
        parts == Split(time_part, ":")
    IN  IF ~(Contains(AM, ts) \/ Contains(PM, ts)) THEN TimeError        \* line 48
        ELSE IF Len(parts) # 2 THEN TimeError           \* the unpacking of line 39
        ELSE LET h == PyInt(parts[1])
                 m == PyInt(parts[2])
             IN  IF h.err # "none" \/ m.err # "none" THEN TimeError
                 ELSE [err |-> "none",
                       hour |-> IF Contains(PM, ts) /\ h.val # 12 THEN h.val + 12
                                ELSE IF Contains(AM, ts) /\ h.val = 12 THEN 0
                                ELSE h.val,
                       minute |-> m.val]

calculate_booking_time_OnlyMidnight(class_time_str) ==
    LET t == parse_time(class_time_str)
    IN  IF t.err # "none" THEN t
        ELSE IF t.hour - 1 = 0 - 1 THEN TimeError
        ELSE [err |-> "none", hour |-> t.hour - 1, minute |-> t.minute]

\* scheduler.py:51-73: the error of parse_time propagates
calculate_booking_time(class_time_str) ==
    LET t == parse_time(class_time_str)
        booking_hour == t.hour - 1
    IN  IF t.err # "none" THEN t
        ELSE IF booking_hour < 0 THEN TimeError
        ELSE [err |-> "none", hour |-> booking_hour, minute |-> t.minute]

DayNames == <<"Sunday", "Monday", "Tuesday", "Wednesday", "Thursday", "Friday",
              "Saturday">>

\* the None of dict.get
None == 0 - 1

\* scheduler.py:76-87
day_to_cron_day(day_name) ==
    IF \E i \in 1..Len(DayNames) : DayNames[i] = day_name
    THEN (CHOOSE i \in 1..Len(DayNames) : DayNames[i] = day_name) - 1
    ELSE None

calculate_cron_day_NoWrap(class_day, days_before) ==
    LET class_day_num == day_to_cron_day(class_day)
    IN  IF class_day_num = None THEN [err |-> "TypeError", val |-> 0]
        ELSE [err |-> "none", val |-> class_day_num - days_before]

\* scheduler.py:90-103: None - days_before raises TypeError
calculate_cron_day(class_day, days_before) ==
    LET class_day_num == day_to_cron_day(class_day)
    IN  IF class_day_num = None THEN [err |-> "TypeError", val |-> 0]
        ELSE [err |-> "none", val |-> (class_day_num - days_before) % 7]

days_before == 7

NoLine == [minute |-> 0, hour |-> 0, dom |-> "", month |-> "", dow |-> 0, command |-> ""]

\* scheduler.py:106-153: the cron line, field by field; the command is the same
\* for every class apart from the name of its log file
generate_cron_entry(class_config) ==
    LET t == calculate_booking_time(class_config.time)                   \* line 126
        cron_day == calculate_cron_day(class_config.day, days_before)    \* line 129
    IN  IF t.err # "none" THEN [err |-> t.err, line |-> NoLine]
        ELSE IF cron_day.err # "none" THEN [err |-> cron_day.err, line |-> NoLine]
        ELSE [err |-> "none",
              line |-> [minute |-> t.minute, hour |-> t.hour, dom |-> "*",
                        month |-> "*", dow |-> cron_day.val,
                        command |-> "book_from_config.py --date +7d"]]

---------------------------------------------------------------------------
(* The trigger-time functions applied to the time and the day of one class *)
(* of classes.yaml.                                                        *)

MaxHourText == 13      \* the hour texts 0, 1, ... up to this number

\* str(n), and n written with two digits, for n in 0..99
Digits(n) ==
    IF n < 10 THEN <<DigitChars[n + 1]>>
    ELSE <<DigitChars[(n \div 10) + 1], DigitChars[(n % 10) + 1]>>

TwoDigits(n) == <<DigitChars[(n \div 10) + 1], DigitChars[(n % 10) + 1]>>

HourTexts ==
    {Digits(h) : h \in 0..MaxHourText}
    \cup {<<"0","3">>, <<"-","1">>, <<"x">>, <<>>}

MinuteTexts ==
    {TwoDigits(m) : m \in {0, 5, 30, 59, 60}} \cup {<<"5">>, <<"x","x">>}

AmTexts == {<<" ","A","M">>, <<"a","m">>}
PmTexts == {<<" ","P","M">>, <<"p","m">>}

MarkerTexts == AmTexts \cup PmTexts \cup {<<>>, <<" ","X","M">>}

TimeTexts ==
    {h \o <<":">> \o m \o mk : h \in HourTexts, m \in MinuteTexts, mk \in MarkerTexts}
    \cup {<<"4",":","3","0",":","0","0"," ","P","M">>,
          <<"4","3","0"," ","P","M">>,
          <<" ","4",":","3","0"," ","P","M"," ">>,
          <<"P","M">>}

DayTexts == {"Sunday", "Monday", "Saturday", "monday"}

InitTime ==
    /\ runIdle
    /\ \E t \in TimeTexts, d \in DayTexts :
          fin = [fn |-> "trigger", time |-> t, day |-> d]
    /\ fout = [st |-> "none", val |-> <<>>]
    /\ schedIdle

ApplyParseTime ==
    /\ fin.fn = "trigger"
    /\ fout.st = "none"
    /\ fout' = [st |-> "parse_time", val |-> parse_time(fin.time)]
    /\ UNCHANGED fin
    /\ UNCHANGED schedVars
    /\ UNCHANGED runVars
    /\ UNCHANGED scrapeVars

ApplyCalculateBookingTime ==
    /\ fin.fn = "trigger"
    /\ fout.st = "none"
    /\ fout' = [st |-> "calculate_booking_time", val |-> calculate_booking_time(fin.time)]
    /\ UNCHANGED fin
    /\ UNCHANGED schedVars
    /\ UNCHANGED runVars
    /\ UNCHANGED scrapeVars

ApplyGenerateCronEntry ==
    /\ fin.fn = "trigger"
    /\ fout.st = "none"
    /\ fout' = [st |-> "generate_cron_entry",
                val |-> generate_cron_entry([time |-> fin.time, day |-> fin.day])]
    /\ UNCHANGED fin
    /\ UNCHANGED schedVars
    /\ UNCHANGED runVars
    /\ UNCHANGED scrapeVars

NextTime ==
    \/ ApplyParseTime
    \/ ApplyCalculateBookingTime
    \/ ApplyGenerateCronEntry

SpecTime == InitTime /\ [][NextTime]_vars

---------------------------------------------------------------------------
(* The trigger store of src/scheduler.py: merge_crontabs (lines 236-266).  *)
(* A crontab is a text, a sequence of characters with "\n" between lines.  *)

\* s.split('\n')
SplitLines(text) == Split(text, "\n")

\* '\n'.join(lines)
RECURSIVE Join(_)
Join(lines) ==
    IF lines = <<>> THEN <<>>
    ELSE IF Len(lines) = 1 THEN lines[1]
    ELSE lines[1] \o <<"\n">> \o Join(Tail(lines))

marker_start == <<"#"," ","B","E","G","I","N"," ","A","L","T","E","A"," ","B","O","O","K","I","N","G">>
marker_end == <<"#"," ","E","N","D"," ","A","L","T","E","A"," ","B","O","O","K","I","N","G">>

\* the value of start_idx / end_idx after the loop of lines 248-252: the index
\* (from 1) of the last line that contains the marker, 0 for None
LastLineWith(lines, mark) ==
    IF \E i \in 1..Len(lines) : Contains(mark, lines[i])
    THEN CHOOSE i \in 1..Len(lines) :
            /\ Contains(mark, lines[i])
            /\ \A j \in (i + 1)..Len(lines) : ~Contains(mark, lines[j])
    ELSE 0

DelSlice_KeepEnd(lines, start_idx, end_idx) ==
    IF start_idx > end_idx THEN lines
    ELSE SubSeq(lines, 1, start_idx - 1) \o SubSeq(lines, end_idx, Len(lines))

\* del lines[start_idx:end_idx+1]: an empty slice when the end is before the start
DelSlice(lines, start_idx, end_idx) ==
    IF start_idx > end_idx THEN lines
    ELSE SubSeq(lines, 1, start_idx - 1) \o SubSeq(lines, end_idx + 1, Len(lines))

\* existing.strip().split('\n') if existing.strip() else []   (lines 242, 325)
StoreLines(existing) ==
    IF Strip(existing) # <<>> THEN SplitLines(Strip(existing)) ELSE <<>>

\* lines 245-256 and 326-336: the lines left once the old section is removed, and
\* whether both markers were found
WithoutSection(lines) ==
    LET start_idx == LastLineWith(lines, marker_start)
        end_idx == LastLineWith(lines, marker_end)
    IN  IF start_idx # 0 /\ end_idx # 0
        THEN [found |-> TRUE, lines |-> DelSlice(lines, start_idx, end_idx)]
        ELSE [found |-> FALSE, lines |-> lines]

merge_crontabs_KeepOldSection(existing, new) ==
    LET lines == StoreLines(existing)
        spaced == IF lines # <<>> /\ Strip(lines[Len(lines)]) # <<>>
                  THEN Append(lines, <<>>)
                  ELSE lines
    IN  Join(spaced \o <<marker_start, Strip(new), marker_end>>) \o <<"\n">>

\* scheduler.py:236-266
merge_crontabs(existing, new) ==
    LET lines == WithoutSection(StoreLines(existing)).lines
        spaced == IF lines # <<>> /\ Strip(lines[Len(lines)]) # <<>>      \* line 259
                  THEN Append(lines, <<>>)
                  ELSE lines
    IN  Join(spaced \o <<marker_start, Strip(new), marker_end>>) \o <<"\n">>

\* lines 325-340: the store without its section, and whether both markers were found
RemoveSection(existing) ==
    LET w == WithoutSection(StoreLines(existing))
        stripped == Strip(Join(w.lines))                                 \* line 337
    IN  [found |-> w.found,
         text |-> IF stripped # <<>> THEN stripped \o <<"\n">> ELSE stripped]

\* what --remove leaves in a store it has read (lines 335-347): the text without
\* the section, or the store untouched when a marker is missing
StoreAfterRemove(existing) ==
    IF RemoveSection(existing).found THEN RemoveSection(existing).text ELSE existing

---------------------------------------------------------------------------
(* merge_crontabs applied to an existing crontab and a new block, and then *)
(* to its own output with the same block, or followed by the deletion of   *)
(* --remove.                                                               *)

MaxMergeLines == 3     \* lines of the existing crontab, at most

\* the lines a crontab is made of here: two entries (one of them indented), a
\* blank line and the two marker lines
CronLineTexts == {<<"a">>, <<" ","b">>, <<>>, marker_start, marker_end}

\* the texts of at most n lines, with or without the final newline
CronTexts(n) ==
    {Join(ls) \o tl : ls \in UNION {[1..k -> CronLineTexts] : k \in 0..n},
                      tl \in {<<>>, <<"\n">>}}

\* new blocks: one line, two lines around a blank one, one line in whitespace
NewBlocks == {<<"j">>, <<"j","\n","\n","k","\n">>, <<" ","j","\n">>}

InitMerge ==
    /\ runIdle
    /\ \E x \in CronTexts(MaxMergeLines), n \in NewBlocks :
          fin = [fn |-> "merge_crontabs", existing |-> x, new |-> n]
    /\ fout = [st |-> "none", val |-> <<>>]
    /\ schedIdle

\* merged = merge_crontabs(existing, new)
MergeOnce ==
    /\ fin.fn = "merge_crontabs"
    /\ fout.st = "none"
    /\ fout' = [st |-> "once", val |-> <<merge_crontabs(fin.existing, fin.new)>>]
    /\ UNCHANGED fin
    /\ UNCHANGED schedVars
    /\ UNCHANGED runVars
    /\ UNCHANGED scrapeVars

\* merge_crontabs(merged, new)
MergeAgain ==
    /\ fin.fn = "merge_crontabs"
    /\ fout.st = "once"
    /\ fout' = [st |-> "twice",
                val |-> Append(fout.val, merge_crontabs(fout.val[1], fin.new))]
    /\ UNCHANGED fin
    /\ UNCHANGED schedVars
    /\ UNCHANGED runVars
    /\ UNCHANGED scrapeVars

\* scheduler.py --remove on the merged store, the read and the install succeeding
RemoveAfterMerge ==
    /\ fin.fn = "merge_crontabs"
    /\ fout.st = "once"
    /\ fout' = [st |-> "removed", val |-> Append(fout.val, StoreAfterRemove(fout.val[1]))]
    /\ UNCHANGED fin
    /\ UNCHANGED schedVars
    /\ UNCHANGED runVars
    /\ UNCHANGED scrapeVars

NextMerge ==
    \/ MergeOnce
    \/ MergeAgain
    \/ RemoveAfterMerge

SpecMerge == InitMerge /\ [][NextMerge]_vars

---------------------------------------------------------------------------
(* scheduler.py as a program: generate_crontab (lines 156-189),            *)
(* get_current_crontab (192-206), install_crontab (209-233) and main       *)
(* (269-395).  One action is one run of the script; the trigger store      *)
(* persists between runs.  The comment lines and the command of the        *)
(* generated text are shortened; its line structure is the source's.       *)

MaxClasses == 2        \* classes in classes.yaml, at most
MaxStoreLines == 2     \* lines of the crontab before the first run, at most
MaxRuns == 2           \* runs of scheduler.py

\* f'{minute} {hour} * * {cron_day} {cron_cmd}' (line 151)
CronLineText(line) ==
    Digits(line.minute) \o <<" ">> \o Digits(line.hour) \o <<" ","*"," ","*"," ">>
    \o Digits(line.dow) \o <<" ">> \o <<"b","o","o","k">>

\* lines 159-168: the header, with the time of generation
HeaderLines(now) ==
    <<<<"#"," ","G","e","n","e","r","a","t","e","d"," ","o","n",":"," ">> \o Digits(now), <<>>, <<"S","H","E","L","L","=","/","b","i","n","/","b","a","s","h">>, <<>>>>

\* lines 184-187: two comment lines (one here), the cron line, a blank line
RECURSIVE ClassLines(_)
ClassLines(triggers) ==
    IF triggers = <<>> THEN <<>>
    ELSE <<<<"#"," ","c","l","a","s","s">>, CronLineText(Head(triggers)), <<>>>> \o ClassLines(Tail(triggers))

\* the first entry that raised, 0 when none did
FirstFailure(entries) ==
    IF \E i \in DOMAIN entries : entries[i].err # "none"
    THEN CHOOSE i \in DOMAIN entries :
            /\ entries[i].err # "none"
            /\ \A j \in 1..(i - 1) : entries[j].err = "none"
    ELSE 0

generate_crontab_NoEmptyCheck(cfg, now) ==
    [err |-> "none", none |-> FALSE, triggers |-> <<>>, text |-> Join(HeaderLines(now))]

\* lines 176-189: the loop over the classes and the text it builds; an
\* exception of generate_cron_entry is not caught and leaves the function
CrontabOf(entries, now) ==
    IF FirstFailure(entries) # 0                                  \* line 177
    THEN [err |-> entries[FirstFailure(entries)].err, none |-> FALSE,
          triggers |-> <<>>, text |-> <<>>]
    ELSE [err |-> "none", none |-> FALSE,
          triggers |-> [i \in DOMAIN entries |-> entries[i].line],
          text |-> Join(HeaderLines(now)
                        \o ClassLines([i \in DOMAIN entries |-> entries[i].line]))]

\* scheduler.py:156-189: None without classes
generate_crontab(cfg, now) ==
    IF cfg.kind = "empty_file"                           \* None.get (line 170)
    THEN [err |-> "AttributeError", none |-> FALSE, triggers |-> <<>>, text |-> <<>>]
    ELSE IF cfg.classes = <<>>                                    \* lines 172-174
    THEN [err |-> "none", none |-> TRUE, triggers |-> <<>>, text |-> <<>>]
    ELSE CrontabOf([i \in DOMAIN cfg.classes |-> generate_cron_entry(cfg.classes[i])],
                   now)

\* get_current_crontab (lines 192-206): the store, or "" when crontab -l fails
get_current_crontab(read) == IF read = "ok" THEN crontab ELSE <<>>

\* what install_crontab (lines 209-233) leaves in the store
Installed(text, installOk) == IF installOk THEN text ELSE crontab

\* the record of a run
RunRecord(mode, status, report, read, installOk, wrote, gen) ==
    [mode |-> mode, status |-> status, report |-> report, read |-> read,
     installOk |-> installOk, wrote |-> wrote, before |-> crontab,
     gen |-> [err |-> gen.err, none |-> gen.none, triggers |-> gen.triggers]]

NoGen == [err |-> "none", none |-> FALSE, triggers |-> <<>>, text |-> <<>>]

\* lines 361-363: main stops when nothing was generated; "go" when it goes on
Generated(gen) ==
    IF gen.err # "none"
    THEN [next |-> "exit", status |-> "1", report |-> "Traceback", gen |-> gen]
    ELSE IF gen.none \/ gen.text = <<>>                     \* if not new_crontab
    THEN [next |-> "exit", status |-> "1", report |-> "No cron jobs to generate",
          gen |-> gen]
    ELSE [next |-> "go", status |-> "0", report |-> "", gen |-> gen]

\* lines 351-363: load the configuration and generate
Generate ==
    IF config.kind = "missing"                              \* load_config, line 24
    THEN [next |-> "exit", status |-> "1",
          report |-> "Error: Configuration file not found", gen |-> NoGen]
    ELSE Generated(generate_crontab(config, clock))

\* a run stopped by Generate
Stopped(mode, g) ==
    /\ lastRun' = RunRecord(mode, g.status, g.report, "none", FALSE, FALSE, g.gen)
    /\ UNCHANGED crontab

\* the flags argparse accepts (lines 291-301): any combination
Flags == [dry_run : BOOLEAN, install : BOOLEAN, remove : BOOLEAN]

\* scheduler.py --remove (lines 320-349): the first test of main, whatever the
\* other flags are
SchedRemove ==
    /\ pc = "sched"
    /\ clock < MaxRuns
    /\ clock' = clock + 1
    /\ \E a \in Flags : a.remove /\ args' = a
    /\ \E read \in {"ok", "fails"}, installOk \in BOOLEAN :
          LET r == RemoveSection(get_current_crontab(read))
          IN  IF r.found
              THEN /\ crontab' = Installed(r.text, installOk)
                   /\ lastRun' = RunRecord("remove", "0",
                                      IF installOk
                                      THEN "Successfully removed Altea booking cron jobs"
                                      ELSE "Failed to remove cron jobs",
                                      read, installOk, installOk, NoGen)
              ELSE /\ UNCHANGED crontab
                   /\ lastRun' = RunRecord("remove", "0", "No Altea booking cron jobs found",
                                      read, installOk, FALSE, NoGen)
    /\ UNCHANGED <<config, fin, fout>>
    /\ UNCHANGED runVars
    /\ UNCHANGED scrapeVars

\* scheduler.py --dry-run (lines 351-375), with or without --install
SchedDryRun ==
    /\ pc = "sched"
    /\ clock < MaxRuns
    /\ clock' = clock + 1
    /\ \E a \in Flags : ~a.remove /\ a.dry_run /\ args' = a
    /\ \E g \in {Generate} :
           IF g.next = "exit" THEN Stopped("dry_run", g)
           ELSE /\ lastRun' = RunRecord("dry_run", "0", "DRY RUN - No changes made to crontab",
                                   "none", FALSE, FALSE, g.gen)
                /\ UNCHANGED crontab
    /\ UNCHANGED <<config, fin, fout>>
    /\ UNCHANGED runVars
    /\ UNCHANGED scrapeVars

\* scheduler.py --install (lines 351-392)
SchedInstall ==
    /\ pc = "sched"
    /\ clock < MaxRuns
    /\ clock' = clock + 1
    /\ \E a \in Flags : ~a.remove /\ ~a.dry_run /\ a.install /\ args' = a
    /\ \E g \in {Generate} :
           IF g.next = "exit" THEN Stopped("install", g)
           ELSE \E read \in {"ok", "fails"}, installOk \in BOOLEAN :
                   LET merged == merge_crontabs(get_current_crontab(read), g.gen.text)
                   IN  /\ crontab' = Installed(merged, installOk)
                       /\ lastRun' = RunRecord("install", "0",
                                          IF installOk
                                          THEN "Successfully installed cron jobs!"
                                          ELSE "Failed to install cron jobs",
                                          read, installOk, installOk, g.gen)
    /\ UNCHANGED <<config, fin, fout>>
    /\ UNCHANGED runVars
    /\ UNCHANGED scrapeVars

\* scheduler.py without a flag (lines 351-369, 393-395)
SchedShow ==
    /\ pc = "sched"
    /\ clock < MaxRuns
    /\ clock' = clock + 1
    /\ args' = NoArgs
    /\ \E g \in {Generate} :
           IF g.next = "exit" THEN Stopped("show", g)
           ELSE /\ lastRun' = RunRecord("show", "0", "To install these cron jobs, run:",
                                   "none", FALSE, FALSE, g.gen)
                /\ UNCHANGED crontab
    /\ UNCHANGED <<config, fin, fout>>
    /\ UNCHANGED runVars
    /\ UNCHANGED scrapeVars

\* the classes of classes.yaml: one that can be scheduled, one before 01:00, one
\* whose time does not parse
SchedClasses ==
    {[time |-> <<"4",":","3","0"," ","P","M">>, day |-> "Monday"],
     [time |-> <<"1","2",":","3","0"," ","A","M">>, day |-> "Monday"],
     [time |-> <<"n","o","o","n">>, day |-> "Friday"]}

Configs ==
    {[kind |-> "classes", classes |-> cs] :
        cs \in UNION {[1..n -> SchedClasses] : n \in 0..MaxClasses}}
    \cup {[kind |-> "missing", classes |-> <<>>], [kind |-> "empty_file", classes |-> <<>>]}

InitSched ==
    /\ prog = "scheduler"
    /\ query = [name |-> <<>>, time |-> <<>>]
    /\ calendar_url = FALSE
    /\ notifier = FALSE
    /\ pc = "sched"
    /\ playwright = "none"
    /\ browser = "none"
    /\ page = "none"
    /\ exitStatus = "running"
    /\ crashCause = "none"
    /\ calls = <<>>
    /\ loginOut = [ret |-> "none", trace |-> <<>>]
    /\ matches = <<>>
    /\ mi = 0
    /\ outcomes = <<>>
    /\ lastBook = [ret |-> "none", trace |-> <<>>]
    /\ scrapeIdle
    /\ pageScrolls = 0
    /\ fin = [fn |-> "none"]
    /\ fout = [st |-> "none", val |-> <<>>]
    /\ crontab \in CronTexts(MaxStoreLines)
    /\ config \in Configs
    /\ clock = 0
    /\ lastRun = NoRun
    /\ args = NoArgs

NextSched ==
    \/ SchedRemove
    \/ SchedDryRun
    \/ SchedInstall
    \/ SchedShow

SpecSched == InitSched /\ [][NextSched]_vars

---------------------------------------------------------------------------
(* A trigger from its generation to the class it books: generate_cron_entry *)
(* (src/scheduler.py:106-153) writes the command line, and when the trigger *)
(* fires book_from_config.py resolves its class with find_class_for_date    *)
(* (src/book_from_config.py:88-117, called at line 171).                    *)

MaxTrigClasses == 2    \* classes in classes.yaml, at most

\* a filter that was not given: None, as falsy as the empty string
NoFilter == <<>>

\* the arguments parse_arguments returns when the trigger of this cron line
\* fires: the command is `book_from_config.py --date $(date +7d)` (lines
\* 136-145), so the target date falls days_before days after the weekday of the
\* line, and neither --time nor --user is given
TriggerArgs(line) ==
    [day_name |-> DayNames[((line.dow + days_before) % 7) + 1],
     time |-> NoFilter, user |-> NoFilter]

\* the classes of the control file that pass the three tests of lines 104-113
Candidates(cfg_classes, day_name, time_filter, user_filter) ==
    {i \in DOMAIN cfg_classes :
        /\ cfg_classes[i].day = day_name
        /\ ~(time_filter # NoFilter /\ cfg_classes[i].time # time_filter)
        /\ ~(user_filter # NoFilter /\ cfg_classes[i].user # user_filter)}

\* book_from_config.py:88-117: the first class that passes, or None
find_class_for_date(cfg_classes, day_name, time_filter, user_filter) ==
    IF Candidates(cfg_classes, day_name, time_filter, user_filter) = {}
    THEN [found |-> FALSE, index |-> 0]
    ELSE [found |-> TRUE,
          index |-> CHOOSE i \in Candidates(cfg_classes, day_name, time_filter, user_filter) :
                       \A j \in Candidates(cfg_classes, day_name, time_filter, user_filter) :
                          i <= j]

\* the classes of classes.yaml: two weekdays, two times, two names, two users
TrigClasses ==
    [day : {"Monday", "Friday"},
     time : {<<"4",":","3","0"," ","P","M">>, <<"6",":","0","0"," ","P","M">>},
     name : {<<"L","F","3">>, <<"Y","o","g","a">>},
     user : {<<"r","y","a","n">>, <<"w","i","f","e">>}]

InitTrigger ==
    /\ runIdle
    /\ \E cs \in UNION {[1..n -> TrigClasses] : n \in 1..MaxTrigClasses} :
          \E i \in DOMAIN cs :
             fin = [fn |-> "fire", classes |-> cs, index |-> i]
    /\ fout = [st |-> "none", val |-> <<>>]
    /\ schedIdle

\* scheduler.py writes the trigger of the class
GenerateTrigger ==
    /\ fin.fn = "fire"
    /\ fout.st = "none"
    /\ fout' = [st |-> "generated", val |-> <<generate_cron_entry(fin.classes[fin.index])>>]
    /\ UNCHANGED fin
    /\ UNCHANGED schedVars
    /\ UNCHANGED runVars
    /\ UNCHANGED scrapeVars

\* the trigger fires: book_from_config.py resolves the class to book (line 171)
FireTrigger ==
    /\ fin.fn = "fire"
    /\ fout.st = "generated"
    /\ fout.val[1].err = "none"
    /\ \E a \in {TriggerArgs(fout.val[1].line)} :
          fout' = [st |-> "fired",
                   val |-> Append(fout.val,
                              find_class_for_date(fin.classes, a.day_name, a.time, a.user))]
    /\ UNCHANGED fin
    /\ UNCHANGED schedVars
    /\ UNCHANGED runVars
    /\ UNCHANGED scrapeVars

NextTrigger ==
    \/ GenerateTrigger
    \/ FireTrigger

SpecTrigger == InitTrigger /\ [][NextTrigger]_vars

---------------------------------------------------------------------------
(* The two programs that take --dry-run, from their command line on:       *)
(* book_from_config.py (main, lines 154-224, then the run modelled above)  *)
(* and scheduler.py.                                                       *)

\* how lines 157-192 of book_from_config.py end: the date does not parse, the
\* control file is missing, no class is configured for the day, the class names
\* no user, users.yaml or the user's credentials are missing, or the class and
\* the credentials are resolved
Preparations == {"bad_date", "no_config", "no_class", "no_user", "bad_users", "ok"}

\* the exit status of a run that ends in lines 157-213, "running" when it goes on
StartStatus(pre, dry_run) ==
    IF pre = "no_class" THEN "0"                                   \* line 182
    ELSE IF pre # "ok" THEN "1"                    \* lines 163, 188, load_config
    ELSE IF dry_run THEN "0"                                  \* lines 211-213
    ELSE "running"

\* book_from_config.py main, lines 155-222: everything before the with statement
ConfigStart ==
    /\ pc = "start"
    /\ prog = "config"
    /\ \E pre \in Preparations :
          /\ exitStatus' = StartStatus(pre, args.dry_run)
          /\ pc' = IF StartStatus(pre, args.dry_run) = "running" THEN "enter" ELSE "done"
          /\ crashCause' = IF StartStatus(pre, args.dry_run) = "1" THEN "sys_exit"
                           ELSE crashCause
    /\ UNCHANGED <<prog, query, calendar_url, notifier, playwright, browser, page, calls,
                   loginOut, matches, mi, outcomes, lastBook>>
    /\ UNCHANGED scrapeVars
    /\ UNCHANGED fnVars

\* book_from_config.py is started, with or without --dry-run
InitConfig ==
    /\ prog = "config"
    /\ query \in Queries("config")
    /\ calendar_url \in BOOLEAN
    /\ notifier \in BOOLEAN
    /\ pc = "start"
    /\ playwright = "none"
    /\ browser = "none"
    /\ page = "none"
    /\ exitStatus = "running"
    /\ crashCause = "none"
    /\ calls = <<>>
    /\ loginOut = [ret |-> "none", trace |-> <<>>]
    /\ matches = <<>>
    /\ mi = 0
    /\ outcomes = <<>>
    /\ lastBook = [ret |-> "none", trace |-> <<>>]
    /\ scrapeIdle
    /\ pageScrolls = MaxRunScrolls
    /\ fin = [fn |-> "none"]
    /\ fout = [st |-> "none", val |-> <<>>]
    /\ crontab = <<>>
    /\ config = [kind |-> "missing", classes |-> <<>>]
    /\ clock = 0
    /\ lastRun = NoRun
    /\ \E d \in BOOLEAN : args = [dry_run |-> d, install |-> FALSE, remove |-> FALSE]

InitDryRun == InitConfig \/ InitSched

NextDryRun ==
    \/ ConfigStart
    \/ Enter
    \/ Login
    \/ GS_Navigate
    \/ GS_Begin
    \/ GS_Link
    \/ GS_EndIteration
    \/ FindClass
    \/ ProcessMatch
    \/ NoMatch
    \/ Exit
    \/ SchedRemove
    \/ SchedDryRun
    \/ SchedInstall
    \/ SchedShow

SpecDryRun == InitDryRun /\ [][NextDryRun]_vars

---------------------------------------------------------------------------
(* Claims.                                                                 *)

Range(f) == {f[i] : i \in DOMAIN f}

\* get_schedule has returned by its return statement of line 218
ReturnedNormally == pc = "gs_done" /\ gsRet.st = "ok" /\ gsRaised = "none"

\* C1: when get_schedule returns normally and no extraction raised, the returned
\* list holds exactly one entry for every URL rendered in a snapshot that was
\* read, and no two entries share a URL.
C1_OneEntryPerRenderedUrl ==
    (ReturnedNormally /\ extractRaised = {}) =>
        /\ \A u \in rendered :
              Cardinality({i \in DOMAIN gsRet.val : gsRet.val[i].url = u}) = 1
        /\ \A i \in DOMAIN gsRet.val : gsRet.val[i].url \in rendered
        /\ \A i, j \in DOMAIN gsRet.val :
              gsRet.val[i].url = gsRet.val[j].url => i = j

\* a later snapshot iterated two links of the one URL rendered so far, and the
\* list returned holds it once
C1_Witness ==
    /\ ReturnedNormally
    /\ extractRaised = {}
    /\ scroll_attempt >= 1
    /\ linkIdx = 2
    /\ Cardinality(rendered) = 1
    /\ Len(gsRet.val) = 1

\* the name test and the time test as the specification words them
SpecNameMatch(name, title) == Contains(Lower(name), Lower(title))

SpecTimeMatch(q, t) ==
    LET a == Upper(Strip(q))
        b == Upper(Strip(t))
    IN  a = b \/ Contains(a, b) \/ Contains(b, a)

\* the two examples of the claim, on the entries of the schedule
C2_Examples ==
    \A i \in DOMAIN fin.schedule :
       LET e == fin.schedule[i]
       IN  /\ (SpecNameMatch(fin.name, e.title) /\ fin.time = T830 /\ e.time = T830AM)
                 => e \in Range(fout.val)
           /\ (fin.time = T830AM /\ e.time = T830PM) => e \notin Range(fout.val)

\* C2 as stated: find_class returns exactly the entries whose title contains the
\* name (case-insensitively) and whose time, both trimmed and uppercased, equals
\* the query time or has either string inside the other.
C2_AsStated ==
    fout.st = "done" =>
        /\ fout.val = SelectSeq(fin.schedule,
                         LAMBDA e : /\ SpecNameMatch(fin.name, e.title)
                                    /\ SpecTimeMatch(fin.time, e.time))
        /\ C2_Examples

\* C2 (amended): the same, among the entries whose stored time is not the empty
\* string; an entry with an empty time is never returned.
C2_NonEmptyTimeMatch ==
    fout.st = "done" =>
        /\ fout.val = SelectSeq(fin.schedule,
                         LAMBDA e : /\ e.time # <<>>
                                    /\ SpecNameMatch(fin.name, e.title)
                                    /\ SpecTimeMatch(fin.time, e.time))
        /\ C2_Examples

\* "8:30" matched a stored "8:30 AM" by containment, beside an entry of the same
\* title that has an empty time and is left out
C2_Witness ==
    /\ fout.st = "done"
    /\ fin.time = T830
    /\ Len(fin.schedule) = 2
    /\ fin.schedule[1].time = <<>>
    /\ fin.schedule[2].time = T830AM
    /\ SpecNameMatch(fin.name, fin.schedule[1].title)
    /\ fout.val = <<fin.schedule[2]>>

\* C3: book_class returns True only if a book control was found and clicked (the
\* text control only when the XPath control is absent) and then the confirm
\* control was found and clicked; confirm is never clicked before book; when no
\* book control is found, nothing is clicked and the result is False.
C3_BookResult ==
    lastBook.ret # "none" =>
        LET tr == lastBook.trace
            did == Range(tr)
            ck == Clicks(tr)
        IN  /\ lastBook.ret = "True" =>
                  /\ ck = <<"click_book", "click_confirm">>
                  /\ "xpath_found" \in did \/ "text_found" \in did
                  /\ "confirm_found" \in did
            /\ ({"text_found", "text_absent"} \cap did # {}) => "xpath_absent" \in did
            /\ ck \in {<<>>, <<"click_book">>, <<"click_book", "click_confirm">>}
            /\ "text_absent" \in did => (ck = <<>> /\ lastBook.ret = "False")

\* C4: book_class never raises: it returns a boolean, and a False return comes
\* right after a diagnostic screenshot.
C4_NeverRaises ==
    lastBook.ret # "none" =>
        /\ lastBook.ret \in {"True", "False"}
        /\ lastBook.ret = "False" =>
              /\ lastBook.trace # <<>>
              /\ lastBook.trace[Len(lastBook.trace)] = "screenshot"

\* C5: get_schedule never propagates an exception: when a step raises, the
\* screenshot is captured and the empty list is returned.
C5_NeverPropagates ==
    pc = "gs_done" =>
        /\ gsRet.st = "ok"
        /\ gsRaised # "none" => (gsShot /\ gsRet.val = <<>>)

\* C6: once the credentials are submitted, login returns False on either failure
\* signal and True when neither is present; it returns False, and never raises,
\* when a step raises; the reveal control does not decide the result.
C6_LoginResult ==
    loginOut.ret # "none" =>
        LET did == Range(loginOut.trace)
        IN  /\ loginOut.ret \in {"True", "False"}
            /\ ("click_submit" \in did /\ {"content_must_login", "form_present"} \cap did # {})
                  => loginOut.ret = "False"
            /\ {"content_ok", "form_absent"} \subseteq did => loginOut.ret = "True"

\* the positions of the calls of one operation in the run
CallsAt(op) == {i \in DOMAIN calls : calls[i].op = op}

\* C7: the steps of a run occur in the order login, get_schedule, find_class,
\* book_class, notify; scraping, matching and booking follow a login that
\* returned True; book_class gets the URL of an entry find_class returned over
\* the run's get_schedule result; when login returns False the process exits
\* with status 1 and nothing is scraped, booked or notified.
C7_RunOrder ==
    /\ calls # <<>> => CallsAt("login") = {1}
    /\ Len(calls) > 1 => loginOut.ret = "True"
    /\ CallsAt("get_schedule") \subseteq {2}
    /\ CallsAt("find_class") \subseteq {3}
    /\ CallsAt("find_class") # {} => CallsAt("get_schedule") # {}
    /\ \A i \in CallsAt("book_class") \cup CallsAt("notify") \cup CallsAt("add_to_calendar") :
          CallsAt("find_class") # {}
    /\ CallsAt("find_class") # {} =>
          /\ gsRet.st = "ok"
          /\ matches = find_class(gsRet.val, query.name, query.time)
    /\ \A i \in CallsAt("book_class") :
          \E j \in DOMAIN matches :
             /\ matches[j].url = calls[i].arg
             /\ matches[j] \in Range(gsRet.val)
    \* the notification of a booking follows the book_class call it reports
    /\ \A i \in CallsAt("notify") :
          calls[i].arg = "success" =>
             \E j \in CallsAt("book_class") : j < i /\ j >= i - 2
    /\ \A i \in CallsAt("add_to_calendar") : calls[i - 1].op = "book_class"
    /\ loginOut.ret = "False" =>
          /\ calls = <<[op |-> "login", arg |-> ""]>>
          /\ pc \in {"exit", "done"}
          /\ pc = "done" => exitStatus = "1"

\* a run that logged in, scraped, matched, booked a class and notified, in this order
C7_Witness ==
    /\ pc = "done"
    /\ exitStatus = "0"
    /\ Len(calls) = 5
    /\ calls[1].op = "login"
    /\ calls[2].op = "get_schedule"
    /\ calls[3].op = "find_class"
    /\ calls[4].op = "book_class"
    /\ calls[5] = [op |-> "notify", arg |-> "success"]

\* C8: the browser session is released on every exit path: once the driver, the
\* browser or the page has been started, all three are closed when the process
\* ends.
C8_SessionReleased ==
    pc = "done" =>
        /\ playwright # "open"
        /\ browser # "open"
        /\ page # "open"

\* the address the claim names (user_creds['notification_email']) reaches the
\* notifier as the keyword user_email
UserAddress == "notification_email"

\* the notification was handed to the mail transport
Delivered(mail) == mail.result = "sent" \/ mail.error = "Exception"

\* C9: with a notifier configured, a successful booking sends a success email to
\* the user's notification address, and each of booking failed, no match and
\* not bookable sends a failure email; the three reasons differ.
C9_OutcomesDelivered ==
    notifier =>
        /\ \A i \in DOMAIN outcomes :
              LET o == outcomes[i]
              IN  /\ o.booked = "True" =>
                        /\ o.mail.kind = "success"
                        /\ Delivered(o.mail)
                        /\ o.mail.result = "sent" => o.mail.to = UserAddress
                  /\ o.booked \in {"False", "skipped", "no_match"} =>
                        /\ o.mail.kind = "failure"
                        /\ Delivered(o.mail)
        /\ \A i, j \in DOMAIN outcomes :
              (/\ outcomes[i].booked \in {"False", "skipped", "no_match"}
               /\ outcomes[j].booked \in {"False", "skipped", "no_match"}
               /\ outcomes[i].booked # outcomes[j].booked)
                 => outcomes[i].mail.reason[1] # outcomes[j].mail.reason[1]

\* the notifier or the calendar call of this iteration failed
SinkFailed(o) == o.mail.result = "raised" \/ o.calendar = "False"

\* C10: a failure of the notifier or of add_to_calendar never ends the run and
\* never changes the booking result: the exception is caught, the matches that
\* remain are processed, and the process does not exit non-zero because of it.
C10_SinkFailuresContained ==
    /\ crashCause \notin {"notify", "calendar"}
    /\ \A i \in DOMAIN outcomes :
          (SinkFailed(outcomes[i]) /\ outcomes[i].booked # "no_match")
             => (i <= mi \/ crashCause = "debug_nav")
    /\ \A i \in DOMAIN outcomes : outcomes[i].calendar # "raised"
    /\ (lastBook.ret = "True" /\ outcomes # <<>> /\ pc = "matches" /\ mi = Len(outcomes))
          => \E i \in DOMAIN outcomes : outcomes[i].booked = "True"
    /\ (pc = "done" /\ crashCause = "none") =>
          /\ exitStatus = "0"
          /\ matches # <<>> => mi = Len(matches)

\* a booked class whose calendar call and email both failed, followed by another
\* match, in a run that ended with status 0
C10_Witness ==
    /\ pc = "done"
    /\ exitStatus = "0"
    /\ Len(outcomes) = 2
    /\ outcomes[1].booked = "True"
    /\ outcomes[1].calendar = "False"
    /\ outcomes[1].mail.result = "raised"
    /\ mi = 2

\* the URLs book_class was called with, in call order
BookedUrls == [i \in DOMAIN SelectSeq(calls, LAMBDA c : c.op = "book_class") |->
                  SelectSeq(calls, LAMBDA c : c.op = "book_class")[i].arg]

\* the URLs of the bookable matches among the first n matches, in list order
BookableUrls(n) ==
    LET firstN == SubSeq(matches, 1, n)
        bookable == SelectSeq(firstN, LAMBDA m : m.can_book)
    IN  [i \in DOMAIN bookable |-> bookable[i].url]

\* C11: book_class is called exactly once for each match whose can_book is true,
\* in list order, and never for a match whose can_book is false; a booking that
\* succeeded, a booking that failed and a match that cannot be booked all leave
\* the later matches to be processed.
C11_EveryMatchProcessed ==
    matches # <<>> =>
        /\ Len(outcomes) <= Len(matches)
        /\ BookedUrls = BookableUrls(Len(outcomes))
        /\ (pc \in {"exit", "done"} /\ crashCause # "book_class")
              => Len(outcomes) = Len(matches)

\* the text of a 12-hour time: the hour, a colon, the minute on two digits, the marker
TimeText(h, mm, mk) == Digits(h) \o <<":">> \o TwoDigits(mm) \o mk

\* the 24-hour hour of the 12-hour hour h with an AM or a PM marker
Hour24(h, mk) == IF mk \in AmTexts THEN h % 12 ELSE (h % 12) + 12

\* the index of a day of the week, Sunday = 0 .. Saturday = 6
DayIndex(d) == (CHOOSE i \in 1..7 : DayNames[i] = d) - 1

\* C12: for a class whose time is a valid 12-hour time at or after 01:00,
\* generate_cron_entry gives a line whose minute is the class minute, whose hour
\* is the class's 24-hour hour minus 1 and whose day of week is the class's own
\* day index; Monday 4:30 PM gives minute 30, hour 15, day 1.
C12_CronEntryFields ==
    fout.st = "generate_cron_entry" =>
        \A h \in 1..12, mm \in 0..59, mk \in AmTexts \cup PmTexts :
           (/\ fin.time = TimeText(h, mm, mk)
            /\ Hour24(h, mk) >= 1
            /\ fin.day \in Range(DayNames))
              => /\ fout.val.err = "none"
                 /\ fout.val.line.minute = mm
                 /\ fout.val.line.hour = Hour24(h, mk) - 1
                 /\ fout.val.line.dow = DayIndex(fin.day)
                 /\ (h = 4 /\ mm = 30 /\ mk \in PmTexts /\ fin.day = "Monday")
                       => (/\ fout.val.line.minute = 30
                           /\ fout.val.line.hour = 15
                           /\ fout.val.line.dow = 1)

\* the line generated for Monday 4:30 PM
C12_Witness ==
    /\ fout.st = "generate_cron_entry"
    /\ fin.time = TimeText(4, 30, <<" ","P","M">>)
    /\ fin.day = "Monday"
    /\ fout.val.err = "none"
    /\ fout.val.line.hour = 15

\* C13 as stated: calculate_booking_time fails exactly when the parsed class hour
\* is 0, and otherwise returns (hour - 1, minute).
C13_AsStated ==
    (fout.st = "calculate_booking_time" /\ parse_time(fin.time).err = "none") =>
        LET t == parse_time(fin.time)
        IN  /\ fout.val.err # "none" <=> t.hour = 0
            /\ fout.val.err = "none" =>
                  (fout.val.hour = t.hour - 1 /\ fout.val.minute = t.minute)

\* C13 (amended): calculate_booking_time fails exactly when parse_time fails or
\* the parsed class hour is less than 1, and otherwise returns (hour - 1, minute).
C13_FailsBelowOne ==
    fout.st = "calculate_booking_time" =>
        LET t == parse_time(fin.time)
        IN  /\ fout.val.err # "none" <=> (t.err # "none" \/ t.hour < 1)
            /\ fout.val.err = "none" =>
                  (fout.val.hour = t.hour - 1 /\ fout.val.minute = t.minute)

\* a time whose hour is written with a minus sign parses to a negative hour, and
\* calculate_booking_time fails on it
C13_Witness ==
    /\ fout.st = "calculate_booking_time"
    /\ parse_time(fin.time).err = "none"
    /\ parse_time(fin.time).hour < 0
    /\ fout.val.err = "ValueError"

\* the time carries an AM or a PM marker, in either case
HasMarker(t) == Contains(AM, Upper(t)) \/ Contains(PM, Upper(t))

\* C14: parse_time maps h:mm AM to (h mod 12, mm) and h:mm PM to (h mod 12 + 12,
\* mm) for h in 1..12 and mm in 0..59; "12:00 AM" gives (0,0), "12:30 PM" gives
\* (12,30), "11:59 PM" gives (23,59); it fails when the string has no AM or PM
\* marker or one of its numeric parts does not parse.
C14_ParseTime ==
    fout.st = "parse_time" =>
        /\ \A h \in 1..12, mm \in 0..59, mk \in AmTexts \cup PmTexts :
              fin.time = TimeText(h, mm, mk) =>
                 fout.val = [err |-> "none", hour |-> Hour24(h, mk), minute |-> mm]
        /\ fin.time = <<"1","2",":","0","0"," ","A","M">> =>
              (fout.val.err = "none" /\ fout.val.hour = 0 /\ fout.val.minute = 0)
        /\ fin.time = <<"1","2",":","3","0"," ","P","M">> =>
              (fout.val.err = "none" /\ fout.val.hour = 12 /\ fout.val.minute = 30)
        /\ fin.time = <<"1","1",":","5","9"," ","P","M">> =>
              (fout.val.err = "none" /\ fout.val.hour = 23 /\ fout.val.minute = 59)
        /\ ~HasMarker(fin.time) => fout.val.err = "ValueError"
        /\ \A hx \in HourTexts, mx \in MinuteTexts, mk \in MarkerTexts :
              (/\ fin.time = hx \o <<":">> \o mx \o mk
               /\ (hx \in {<<"x">>, <<>>} \/ mx = <<"x","x">>))
                 => fout.val.err = "ValueError"

\* parse_time applied to "12:00 AM"
C14_Witness ==
    /\ fout.st = "parse_time"
    /\ fin.time = <<"1","2",":","0","0"," ","A","M">>
    /\ fout.val = [err |-> "none", hour |-> 0, minute |-> 0]

\* C15: a cron line that generate_cron_entry emits without raising, for a time
\* string that parse_time accepts, has its minute in 0..59, its hour in 0..23 and
\* its day of week in 0..6.
C15_FieldsInRange ==
    (fout.st = "generate_cron_entry" /\ fout.val.err = "none") =>
        /\ fout.val.line.minute \in 0..59
        /\ fout.val.line.hour \in 0..23
        /\ fout.val.line.dow \in 0..6

\* the lines of a text file: the pieces between newlines, the final newline
\* ending the last line
Lines(text) ==
    IF text = <<>> THEN <<>>
    ELSE LET ls == SplitLines(text)
         IN  IF ls[Len(ls)] = <<>> THEN SubSeq(ls, 1, Len(ls) - 1) ELSE ls

\* the positions of the lines of a text that hold a marker
MarkerLines(text, mark) ==
    LET ls == Lines(text)
    IN  {i \in 1..Len(ls) : Contains(mark, ls[i])}

\* the text holds one sentinel block: one BEGIN line, one END line after it
OneSection(text) ==
    /\ Cardinality(MarkerLines(text, marker_start)) = 1
    /\ Cardinality(MarkerLines(text, marker_end)) = 1
    /\ \A i \in MarkerLines(text, marker_start) :
          \A j \in MarkerLines(text, marker_end) : i < j

NoMarkers(text) ==
    MarkerLines(text, marker_start) = {} /\ MarkerLines(text, marker_end) = {}

\* the lines of a text that lie outside its sentinel block, in order
OutsideLines(text) ==
    IF ~OneSection(text) THEN Lines(text)
    ELSE LET i == CHOOSE k \in MarkerLines(text, marker_start) : TRUE
             j == CHOOSE k \in MarkerLines(text, marker_end) : TRUE
         IN  SubSeq(Lines(text), 1, i - 1) \o SubSeq(Lines(text), j + 1, Len(Lines(text)))

\* the block as merge_crontabs writes it: BEGIN marker, new, END marker
BlockLines(new) == <<marker_start>> \o SplitLines(Strip(new)) \o <<marker_end>>

BlockText(new) == Join(BlockLines(new))

\* how many times a text occurs inside another
Occurrences(sub, text) ==
    Cardinality({i \in 0..(Len(text) - Len(sub)) : SubSeq(text, i + 1, i + Len(sub)) = sub})

\* C17: merge_crontabs is idempotent in the new block: merging n into the output
\* of merging n into x gives that same output, and the output holds the new block
\* once.
C17_MergeIdempotent ==
    fout.st = "twice" =>
        /\ fout.val[2] = fout.val[1]
        /\ (NoMarkers(fin.existing) \/ OneSection(fin.existing))
              => Occurrences(BlockText(fin.new), fout.val[2]) = 1

\* C18: merge_crontabs outputs every line of existing outside the sentinel block
\* verbatim and in order, with the old block replaced by exactly one block BEGIN /
\* new / END; without markers the block is appended, after a separating blank
\* line exactly when existing is not empty and does not end with a blank line.
C18_MergeKeepsOtherLines ==
    fout.st = "once" =>
        LET x == fin.existing
            out == Lines(fout.val[1])
            kept == OutsideLines(x)
            blank == <<<<>>>>
        IN  /\ NoMarkers(x) =>
                  out = kept
                        \o (IF kept # <<>> /\ Strip(kept[Len(kept)]) # <<>>
                            THEN blank ELSE <<>>)
                        \o BlockLines(fin.new)
            /\ OneSection(x) =>
                  \/ out = kept \o BlockLines(fin.new)
                  \/ out = kept \o blank \o BlockLines(fin.new)

\* the run generated the triggers of classes.yaml (it was not a --remove run)
GeneratingRun == lastRun.mode \in {"dry_run", "install", "show"}

\* C16: when time derivation fails for one class of the configuration,
\* generate_crontab still produces the trigger of every other class.
C16_OtherClassesScheduled ==
    (GeneratingRun /\ config.kind = "classes") =>
        \A i \in DOMAIN config.classes :
           generate_cron_entry(config.classes[i]).err = "none" =>
              generate_cron_entry(config.classes[i]).line \in Range(lastRun.gen.triggers)

\* C19: scheduler --remove deletes the lines from the BEGIN marker through the END
\* marker and writes back all other lines unchanged and in order; without markers
\* it performs no write and reports that no jobs were found.
C19_RemoveKeepsOtherLines ==
    (lastRun.mode = "remove" /\ lastRun.read = "ok") =>
        /\ (OneSection(lastRun.before) /\ lastRun.installOk) =>
              /\ lastRun.wrote
              /\ Lines(crontab) = OutsideLines(lastRun.before)
        /\ NoMarkers(lastRun.before) =>
              /\ ~lastRun.wrote
              /\ crontab = lastRun.before
              /\ lastRun.report = "No Altea booking cron jobs found"

\* C20: with a configuration that declares zero classes, a dry-run or an install
\* run of the scheduler exits with a non-zero status and never writes the trigger
\* store.
C20_NoClassesNoWrite ==
    (lastRun.mode \in {"dry_run", "install"} /\ config.classes = <<>>) =>
        /\ lastRun.status = "1"
        /\ ~lastRun.wrote
        /\ crontab = lastRun.before

\* an install run over a configuration with an empty class list and a store that
\* holds an entry
C20_Witness ==
    /\ lastRun.mode = "install"
    /\ config = [kind |-> "classes", classes |-> <<>>]
    /\ lastRun.status = "1"
    /\ lastRun.report = "No cron jobs to generate"
    /\ crontab # <<>>

\* the metrics read in this iteration are at the bottom of the page
MetricsAtBottom ==
    metrics.scroll_top + metrics.client_height >= metrics.scroll_height - Tolerance

\* the iteration that read the current snapshot ends
IterationEnds == pc = "gs_links" /\ pc' # "gs_links"

\* C21: get_schedule terminates: the loop counts at most 100 iterations, reads at
\* most 100 snapshots and scrolls at most 100 times; an iteration whose metrics
\* are at the bottom (offset + viewport >= height - 10) returns the list without
\* scrolling, one whose metrics are not goes on or raises; and the call ends.
C21_Terminates ==
    /\ [](scroll_attempt <= ScrollLimit /\ snapshots <= ScrollLimit /\ scrolls <= ScrollLimit)
    /\ [][IterationEnds =>
            IF MetricsAtBottom
            THEN /\ pc' = "gs_done"
                 /\ gsRet' = [st |-> "ok", val |-> classes]
                 /\ scrolls' = scrolls
                 /\ scroll_attempt' = scroll_attempt
            ELSE pc' = "gs_loop" \/ gsRaised' = "scroll"]_vars
    /\ <>(pc = "gs_done")

\* the page was away from its bottom for two iterations and at it in the third,
\* which returned
C21_Witness ==
    /\ ReturnedNormally
    /\ scroll_attempt = 2
    /\ snapshots = 3
    /\ scrolls = 2
    /\ MetricsAtBottom
    /\ metrics.scroll_top + metrics.client_height < metrics.scroll_height

\* the entries of a list that carry this URL
EntriesOf(list, u) == {i \in DOMAIN list : list[i].url = u}

\* C22: an extraction error on an entry is not fatal: the scrape still returns
\* by its return statement, the entry is left out, and every URL that was
\* rendered without an error, or whose fields were extracted, has its one entry
\* in the list returned.
C22_ExtractionErrorNotFatal ==
    /\ (pc = "gs_done" /\ gsRaised = "none") => gsRet = [st |-> "ok", val |-> classes]
    /\ ReturnedNormally =>
          \A u \in URLS :
             /\ (u \in rendered \ extractRaised \/ attempts[u] = <<"ok">>) =>
                   /\ Cardinality(EntriesOf(gsRet.val, u)) = 1
                   /\ \A i \in EntriesOf(gsRet.val, u) : gsRet.val[i] = class_info(u)
             /\ (u \in extractRaised /\ attempts[u] # <<"ok">>) => EntriesOf(gsRet.val, u) = {}

\* one extraction raised, two other entries were collected over two snapshots or
\* more, and the list was returned
C22_Witness ==
    /\ ReturnedNormally
    /\ Cardinality(extractRaised) = 1
    /\ snapshots >= 2
    /\ Len(gsRet.val) = 2
    /\ \A i \in DOMAIN gsRet.val : gsRet.val[i].url \notin extractRaised

\* C28: the URL is recorded as seen before the fields are extracted: the fields
\* of a URL are extracted at most once in a scrape, a URL whose fields are
\* being or were extracted is in seen_urls, and a URL whose extraction raised
\* has no entry in the accumulated list nor in the list returned, also when it
\* was rendered again with fields that could be extracted.
C28_ExtractedAtMostOnce ==
    \A u \in URLS :
       /\ Len(attempts[u]) <= 1
       /\ attempts[u] # <<>> => u \in seen_urls
       /\ attempts[u] = <<"raised">> =>
             /\ EntriesOf(classes, u) = {}
             /\ EntriesOf(gsRet.val, u) = {}
       /\ u \in reRendered => attempts[u] = <<"raised">>

\* the extraction of a URL raised, the URL was rendered again with fields that
\* could be extracted, and the list returned holds the other entries only
C28_Witness ==
    /\ ReturnedNormally
    /\ reRendered # {}
    /\ snapshots >= 2
    /\ gsRet.val # <<>>
    /\ \A u \in reRendered : EntriesOf(gsRet.val, u) = {}

\* C29: when a step of the scrape raises after entries were accumulated,
\* get_schedule returns the empty list; what it returns is the whole accumulated
\* list of a loop that ended normally, or the empty list.
C29_EmptyAfterException ==
    pc = "gs_done" =>
        /\ (gsRaised # "none" /\ classes # <<>>) => gsRet = [st |-> "ok", val |-> <<>>]
        /\ gsRet.st = "ok" =>
              \/ gsRaised = "none" /\ gsRet.val = classes
              \/ gsRet.val = <<>>

\* get_schedule has returned by line 218 with no snapshot at the bottom: its
\* loop ended by the limit of line 142
ReturnedByLimit == ReturnedNormally /\ ~at_bottom

\* C30: when no snapshot is at the bottom, get_schedule has read exactly 100
\* snapshots and scrolled exactly 100 times when it returns, never more; it
\* returns the accumulated list by its return statement; and no snapshot is
\* read after the last scroll, so every entry returned was rendered in one of
\* the 100 snapshots read before it.
C30_LimitReached ==
    /\ snapshots <= ScrollLimit
    /\ scrolls <= ScrollLimit
    /\ (pc = "gs_loop" /\ gsRaised = "none") => snapshots = scrolls
    /\ ReturnedByLimit =>
          /\ snapshots = ScrollLimit
          /\ scrolls = ScrollLimit
          /\ gsRet = [st |-> "ok", val |-> classes]
          /\ \A i \in DOMAIN gsRet.val : gsRet.val[i].url \in rendered

\* a page that never was at its bottom: the call returned its entries after the
\* hundredth scroll
C30_Witness ==
    /\ ReturnedByLimit
    /\ scroll_attempt = ScrollLimit
    /\ scrolls = ScrollLimit
    /\ snapshots = scrolls
    /\ gsRet.val # <<>>

\* C23: a --dry-run invocation has no external effect: book_from_config.py
\* --dry-run opens no browser session and calls neither the client, the
\* notifier nor the calendar; a run of scheduler.py with --dry-run, or with
\* neither --install nor --remove, leaves the trigger store as it was.
C23_DryRunNoEffect ==
    /\ (prog = "config" /\ args.dry_run) =>
          /\ calls = <<>>
          /\ outcomes = <<>>
          /\ playwright = "none" /\ browser = "none" /\ page = "none"
          /\ pc \in {"start", "done"}
    /\ (/\ prog = "scheduler"
        /\ lastRun.mode # "none"
        /\ args.dry_run \/ (~args.install /\ ~args.remove)) =>
          /\ ~lastRun.wrote
          /\ crontab = lastRun.before

\* C24: the trigger generated for a class of the configuration, when it fires,
\* makes book_from_config.py select that same class (day, time, name and user),
\* also when two classes of the configuration fall on one weekday.
C24_TriggerSelectsItsClass ==
    fout.st = "fired" =>
        /\ fout.val[2].found
        /\ fin.classes[fout.val[2].index] = fin.classes[fin.index]

\* the entries of a text outside its sentinel block: its lines that are not
\* blank, without the whitespace around them
OutsideEntries(text) ==
    {Strip(OutsideLines(text)[i]) : i \in DOMAIN OutsideLines(text)} \ {<<>>}

\* C25: an --install run never removes unrelated entries: every entry that was
\* in the store outside the sentinel block before the run is in the store after
\* it (here even with the whitespace around a line left aside), also when
\* reading the store failed.
C25_InstallKeepsOtherEntries ==
    (lastRun.mode = "install" /\ (NoMarkers(lastRun.before) \/ OneSection(lastRun.before))) =>
        OutsideEntries(lastRun.before) \subseteq OutsideEntries(crontab)

\* the store holds no marker, or one BEGIN line and one END line after it
WellFormed(text) == NoMarkers(text) \/ OneSection(text)

=============================================================================
